---- MODULE Spec2Model ----
(***************************************************************************)
(* GL deviation watchlist: the deviation scoring and tiering engine        *)
(* (src/deviation_engine.py) and the batch analysis that feeds it          *)
(* (src/analyzer.py, src/statisticsal_inferences.py) as state machines.    *)
(*                                                                         *)
(* Number representation.  Python floats are modelled exactly as rationals *)
(* over integers:                                                          *)
(*   - ledger amounts (means, stds, medians, diffs) are integers;          *)
(*   - thresholds, percentile gates, weight multipliers and Cohen's d are  *)
(*     integers counting hundredths (0.75 is 75, 1.0 is 100);              *)
(*   - a percentile rank is the pair (r2, n) standing for r2 / (2 * n),    *)
(*     r2 being twice the average rank and n the number of ranked rows.    *)
(* Every comparison of the code is done by cross multiplication, which     *)
(* agrees with IEEE double arithmetic for the magnitudes used here (a      *)
(* correctly rounded quotient equals a decimal literal exactly when the    *)
(* rational does; int(w * f) equals (w * f100) \div 100 for w < 25).       *)
(* The epsilon floors (1e-9, 1e-12) are smaller than any non-zero amount   *)
(* of the model, so max(|x|, 1e-9) is |x| unless x = 0.                    *)
(***************************************************************************)
EXTENDS Integers, Sequences, FiniteSets, TLC

VARIABLES
    results_df,   \* the input table: [columns, rows]
    cfg,          \* the DeviationConfig of the run
    pc,           \* position in build_deviation_report
    metrics,      \* detect_metrics(...) of the input table
    mean_pct,     \* metric -> percentile of abs(CY_Mean) per row
    std_pct,      \* metric -> percentile of abs(CY_Std) per row
    idx,          \* next row of df.iterrows() to score
    acct,         \* per scored row: the locals of its loop iteration
    rows,         \* the accumulating output row list
    out,          \* the returned report
    error,        \* the message of the ValueError raised, "" if none
    cfg_dict,     \* the plain dict exported from a config (asdict)
    cfg_loaded,   \* the config rebuilt from cfg_dict (config_from_dict)
    out_columns,  \* the column labels of the returned report
    cfg_start,    \* the values of the DeviationConfig when the run started
    account_data, \* GLAnalyzer.account_data: account code -> sub-record
    period,       \* the aggregation period name of the analysis run
    apc,          \* position in run_analysis_for_all_accounts
    pos,          \* next item of sorted(account_data.items())
    all_results,  \* the accumulating result rows of the analysis
    successful,   \* counter of accounts analysed
    skipped,      \* counter of accounts skipped
    log,          \* what happened to each account, in processing order
    analysis_out, \* the table run_analysis_for_all_accounts returned
    tx_previous,  \* the caller's prior-year transaction table of one account
    tx_current,   \* the caller's current-year transaction table
    tx_start,     \* both caller's tables as they were before the first analysis
    self_df_last_year,    \* StatisticalInferences.df_last_year
    self_df_current_year, \* StatisticalInferences.df_current_year
    monthly_last_year,    \* StatisticalInferences.monthly_last_year
    monthly_current_year, \* StatisticalInferences.monthly_current_year
    comparison,   \* the comparison record: included metric -> its measures
    extracted,    \* the columns _extract_metrics put into the result row
    agg_period,   \* the period name passed to compare_statistical_inferences
    epc,          \* position in the analysis of one account
    runs,         \* number of analyses completed over the caller's tables
    name_arg,     \* the account name passed to bucketize
    bucket,       \* the bucket bucketize returned
    ipc,          \* position in the interpretation of one name
    session_state,  \* st.session_state of the dashboard
    up_current,   \* the file in the current-year uploader, "none" if empty
    up_previous,  \* the file in the prior-year uploader, "none" if empty
    cfg_sig,      \* the signature of the sidebar settings
    run_disabled, \* the run button as last rendered
    run_log       \* per started run: what the session held when it started

\* the state of a build_deviation_report run, of a config round trip, and of
\* a GLAnalyzer run
reportVars == <<results_df, cfg, pc, metrics, mean_pct, std_pct, idx, acct, rows,
                out, error, out_columns, cfg_start>>
configVars == <<cfg_dict, cfg_loaded>>
analyzerVars == <<account_data, period, apc, pos, all_results, successful,
                  skipped, log, analysis_out>>

engineVars == <<tx_previous, tx_current, tx_start, self_df_last_year,
                self_df_current_year,
                monthly_last_year, monthly_current_year, comparison, extracted,
                agg_period, epc, runs>>
interpVars == <<name_arg, bucket, ipc>>
dashVars == <<session_state, up_current, up_previous, cfg_sig, run_disabled, run_log>>

vars == <<reportVars, configVars, analyzerVars, engineVars, interpVars, dashVars>>

-----------------------------------------------------------------------------
(* Bounds of the model *)

\* the longest input table (number of account rows)
MaxAccounts == 3

-----------------------------------------------------------------------------
(* Table cells and parsed values *)

\* a raw cell of the input table
NoneCell     == [k |-> "none", v |-> 0, s |-> ""]
NaNCell      == [k |-> "nan",  v |-> 0, s |-> ""]
Num(n)       == [k |-> "num",  v |-> n, s |-> ""]
BoolCell(b)  == [k |-> "bool", v |-> IF b THEN 1 ELSE 0, s |-> ""]
Str(s)       == [k |-> "str",  v |-> 0, s |-> s]
\* float("inf") for sgn = 1, float("-inf") for sgn = -1
InfCell(sgn) == [k |-> "inf",  v |-> sgn, s |-> ""]

\* a Python float: not-a-number, an infinity (inf is its sign) or a number
NaN    == [nan |-> TRUE,  inf |-> 0, v |-> 0]
F(n)   == [nan |-> FALSE, inf |-> 0, v |-> n]
Inf(sgn) == [nan |-> FALSE, inf |-> sgn, v |-> 0]

isnan(x) == x.nan

Abs(n) == IF n < 0 THEN -n ELSE n

\* to_float: None, booleans and unparsable text give NaN.  The text cells of
\* the model ("n/a", labels) are not numerals, so float(x) raises on them.
to_float(x) ==
    IF x.k = "none" THEN NaN
    ELSE IF x.k = "bool" THEN NaN
    ELSE IF x.k = "num" THEN F(x.v)
    ELSE IF x.k = "inf" THEN Inf(x.v)
    ELSE NaN

\* str.strip().lower() on the texts of the model
StripLower(s) ==
    CASE s \in {"True", "TRUE", " true "} -> "true"
      [] s \in {"Yes", " yes"}           -> "yes"
      [] s \in {"False", "FALSE"}        -> "false"
      [] s \in {"Large", " large ", "LARGE"} -> "large"
      [] s \in {"Medium", "MEDIUM"}      -> "medium"
      [] s \in {"Small"}                 -> "small"
      [] s \in {"None"}                  -> "none"
      [] OTHER                           -> s


\* to_bool with Python truthiness for floats: bool(float("nan")) is True
to_bool_NaNIsTrue(x) ==
    IF x.k = "none" THEN "N"
    ELSE IF x.k = "nan" THEN "T"
    ELSE IF x.k = "bool" THEN (IF x.v = 1 THEN "T" ELSE "F")
    ELSE IF x.k = "str" THEN
        (IF StripLower(x.s) \in {"true", "t", "1", "yes", "y"} THEN "T"
         ELSE IF StripLower(x.s) \in {"false", "f", "0", "no", "n"} THEN "F"
         ELSE "N")
    ELSE "N"

\* to_bool: "T", "F", or "N" for None (unknown)
to_bool(x) ==
    IF x.k = "none" THEN "N"
    ELSE IF x.k = "nan" THEN "N"
    ELSE IF x.k = "bool" THEN (IF x.v = 1 THEN "T" ELSE "F")
    ELSE IF x.k = "str" THEN
        (IF StripLower(x.s) \in {"true", "t", "1", "yes", "y"} THEN "T"
         ELSE IF StripLower(x.s) \in {"false", "f", "0", "no", "n"} THEN "F"
         ELSE "N")
    ELSE "N"

\* the effect-size label: "" for None / NaN, else str(x).strip().lower()
EffLabel(x) ==
    IF x.k = "none" \/ x.k = "nan" THEN ""
    ELSE IF x.k = "str" THEN StripLower(x.s)
    ELSE "number"

-----------------------------------------------------------------------------
(* Metric detection *)

\* the metric streams the model knows; "Fees" is a stream outside the
\* preferred list
pref == <<"Credit", "Debit", "Running_Balance", "GST">>
AlphaOrder == <<"Fees">>
AllMetrics == {"Credit", "Debit", "Running_Balance", "GST", "Fees"}

\* columns are pairs <<metric, statistic>>; the identity columns have no metric
CodeCol == <<"", "Account Code">>
NameCol == <<"", "Account Name">>

Stats == {"LY_Mean", "CY_Mean", "LY_Std", "CY_Std", "CY_Median", "Mean_Diff",
          "Std_Diff", "TTest_Significant", "MannWhitney_Significant",
          "KS_Significant", "ANOVA_Significant", "Effect_Size", "Cohens_D"}

RECURSIVE FilterSeq(_, _)
FilterSeq(s, S) ==
    IF s = <<>> THEN <<>>
    ELSE IF Head(s) \in S THEN <<Head(s)>> \o FilterSeq(Tail(s), S)
    ELSE FilterSeq(Tail(s), S)

\* detect_metrics: the prefixes of the '<Metric>_CY_Mean' columns, the
\* preferred streams first in their fixed order, then the others by name
detect_metrics(columns) ==
    LET found == {c[1] : c \in {x \in columns : x[2] = "CY_Mean"}}
    IN FilterSeq(pref, found) \o FilterSeq(AlphaOrder, found)

-----------------------------------------------------------------------------
(* Configuration: thresholds, weights, profiles, tiers, language *)

Thresholds ==
    [high_cv |-> 100, moderate_cv |-> 70, mean_median_gap_ratio |-> 38,
     pearson_skew_abs |-> 120, rel_mean_shift |-> 75, rel_std_jump |-> 80,
     cohens_d_large |-> 80, cohens_d_medium |-> 50,
     sign_reversal_min_mean_pct |-> 60, new_activity_factor |-> 1000]

Weights ==
    [distribution_change |-> 5, mean_shift |-> 5, effect_large |-> 4,
     effect_medium |-> 2, high_cv |-> 2, moderate_cv |-> 1,
     mean_median_gap |-> 2, pearson_skew |-> 1, volatility_jump |-> 2,
     low_mean_high_variance |-> 2, new_activity |-> 2, sign_reversal |-> 3]

\* MetricProfile(name) with the dataclass defaults
MetricProfile(name) ==
    [name |-> name, min_mean_pct_for_cv |-> 60, min_mean_pct_for_effect |-> 30,
     effect_weight_mult |-> 100, cv_weight_mult |-> 100,
     low_mean_pct |-> 30, high_std_pct |-> 70]

default_profiles ==
    [m \in {"Credit", "Debit", "Running_Balance", "GST"} |->
        CASE m = "Credit" ->
               [MetricProfile("Credit") EXCEPT !.min_mean_pct_for_cv = 60,
                                               !.min_mean_pct_for_effect = 60]
          [] m = "Debit" ->
               [MetricProfile("Debit") EXCEPT !.min_mean_pct_for_cv = 30,
                                              !.min_mean_pct_for_effect = 30]
          [] m = "Running_Balance" ->
               [MetricProfile("Running_Balance") EXCEPT
                    !.min_mean_pct_for_cv = 75, !.min_mean_pct_for_effect = 78,
                    !.effect_weight_mult = 70, !.cv_weight_mult = 80]
          [] m = "GST" ->
               [MetricProfile("GST") EXCEPT
                    !.min_mean_pct_for_cv = 40, !.min_mean_pct_for_effect = 45,
                    !.effect_weight_mult = 90, !.cv_weight_mult = 90]]

Tiering ==
    [tier1_min_score |-> 14, tier2_min_score |-> 7, tier3_min_score |-> 5,
     include_tier3 |-> FALSE, max_tier1 |-> 10,
     tier1_materiality_pct |-> 75, tier1_override_score |-> 28,
     drop_pure_volatility_below_mean_pct |-> 80,
     require_any_of_triggers |->
        <<"Distribution Change", "Mean Shift", "Large Effect Size",
          "Low Mean with High Variance", "New Activity / Re-start",
          "Sign Reversal", "High CV", "Mean-Median Gap">>]

Language ==
    [bucket_finish |->
        [revenue  |-> "Check cut-off, pricing/mix changes, and recognition timing.",
         cash     |-> "Often driven by batch journals, timing, bank rule changes, or missed automation.",
         timing   |-> "Common causes are accruals vs prepaids, one-offs, or timing corrections.",
         clearing |-> "Usually points to reconciliation gaps, clearing discipline, or mis-postings into control accounts.",
         tax      |-> "Validate coding, rate mapping, and whether supply classification changed.",
         rounding |-> "Unexpected activity can mask systemic posting issues or forced balancing journals.",
         general  |-> "Often a mix of reclasses, one-offs, or process changes."]]

CheckNames == {"distribution_change", "mean_shift", "effect_size", "cv",
               "mean_median_gap", "pearson_skew", "volatility_jump",
               "low_mean_high_variance", "new_activity", "sign_reversal"}

\* DeviationConfig() with every default factory applied
DeviationConfig ==
    [thresholds |-> Thresholds, weights |-> Weights, tiers |-> Tiering,
     profiles |-> default_profiles, language |-> Language,
     enabled_checks |-> [c \in CheckNames |-> TRUE]]

-----------------------------------------------------------------------------
(* Materiality ranker *)

PctNaN == [nan |-> TRUE, r2 |-> 0, n |-> 1]

\* pd.to_numeric(errors="coerce").abs().replace([inf, -inf], nan): text,
\* blanks and infinities become NaN
ToNumericAbs(x) == IF x.k = "num" THEN F(Abs(x.v)) ELSE NaN

\* Series.rank(pct=True) of the non-null values: average rank over ties,
\* divided by the number of non-null values; NaN rows stay NaN
percentile_rank_abs(df, metric, suffix) ==
    LET N == Len(df.rows)
    IN IF <<metric, suffix>> \notin df.columns
       THEN [i \in 1..N |-> PctNaN]
       ELSE LET vals == [i \in 1..N |-> ToNumericAbs(df.rows[i].m[metric][suffix])]
                non_null == {i \in 1..N : ~isnan(vals[i])}
            IN [i \in 1..N |->
                  IF i \notin non_null THEN PctNaN
                  ELSE [nan |-> FALSE,
                        r2 |-> 2 * Cardinality({j \in non_null : vals[j].v < vals[i].v})
                               + Cardinality({j \in non_null : vals[j].v = vals[i].v}) + 1,
                        n |-> Cardinality(non_null)]]

\* p >= threshold and p <= threshold for a defined percentile p = r2 / (2n)
PctGE(p, th) == 100 * p.r2 >= th * 2 * p.n
PctLE(p, th) == 100 * p.r2 <= th * 2 * p.n
PctLT(p, th) == 100 * p.r2 < th * 2 * p.n

\* pct_ok: a NaN percentile never passes a gate
pct_ok(p, threshold) == (~p.nan) /\ PctGE(p, threshold)

\* prof: the metric's profile, or the default profile of an unknown metric
prof(c, m) == IF m \in DOMAIN c.profiles THEN c.profiles[m] ELSE MetricProfile(m)

-----------------------------------------------------------------------------
(* Arithmetic of the scorer *)

\* the product rounded up to the next integer instead of truncated
IntScaled_RoundsUp(w, f100) ==
    IF w * f100 >= 0 THEN (w * f100 + 99) \div 100 ELSE -((-(w * f100)) \div 100)

\* int(w * f) for a weight w and a factor of f100 hundredths (truncation
\* toward zero)
IntScaled(w, f100) ==
    IF w * f100 >= 0 THEN (w * f100) \div 100 ELSE -((-(w * f100)) \div 100)

\* num / max(den, 1e-9) >= th100 / 100, for num, den >= 0
RatioGE(num, den, th100) ==
    IF den = 0 THEN (IF num = 0 THEN th100 <= 0 ELSE TRUE)
    ELSE 100 * num >= th100 * den

\* num > max(den, 1e-9) * th100 / 100, for num, den >= 0 and th100 >= 0
MoreThanScaled(num, den, th100) ==
    IF den = 0 THEN num > 0 ELSE 100 * num > th100 * den

\* IEEE arithmetic on floats that may be infinite
Sign(n) == IF n > 0 THEN 1 ELSE IF n < 0 THEN -1 ELSE 0

\* abs(x)
FAbs(x) == [nan |-> x.nan, inf |-> Abs(x.inf), v |-> Abs(x.v)]

\* a - b: inf - inf is NaN
FSub(a, b) ==
    IF a.nan \/ b.nan THEN NaN
    ELSE IF a.inf # 0 /\ b.inf # 0 THEN (IF a.inf = b.inf THEN NaN ELSE Inf(a.inf))
    ELSE IF a.inf # 0 THEN Inf(a.inf)
    ELSE IF b.inf # 0 THEN Inf(-b.inf)
    ELSE F(a.v - b.v)

\* k * x for an integer k > 0
FScale(x, k) == [nan |-> x.nan, inf |-> x.inf, v |-> k * x.v]

\* the sign of x as a product sees it: inf * 0 is NaN and compares false
FSign(x) == IF x.inf # 0 THEN x.inf ELSE Sign(x.v)

\* x >= th100 / 100 for x >= 0
FGE(x, th100) == (~x.nan) /\ (x.inf # 0 \/ x.v >= th100)

\* num / max(den, 1e-9) >= th100 / 100 for num, den >= 0: inf / inf is NaN,
\* inf / finite is inf, finite / inf is 0
QuotGE(num, den, th100) ==
    IF num.nan \/ den.nan THEN FALSE
    ELSE IF num.inf # 0 /\ den.inf # 0 THEN FALSE
    ELSE IF num.inf # 0 THEN TRUE
    ELSE IF den.inf # 0 THEN th100 <= 0
    ELSE RatioGE(num.v, den.v, th100)

\* num > max(den, 1e-9) * th100 / 100 for num, den >= 0 and th100 >= 0:
\* nothing exceeds inf, and inf * 0 is NaN
FMoreThanScaled(num, den, th100) ==
    IF num.nan \/ den.nan THEN FALSE
    ELSE IF den.inf # 0 THEN FALSE
    ELSE IF num.inf # 0 THEN TRUE
    ELSE MoreThanScaled(num.v, den.v, th100)

-----------------------------------------------------------------------------
(* Deviation scorer: one metric stream of one account *)

\* r.get(f"{m}_{stat}"): None when the table has no such column
RowGet(df, r, m, stat) ==
    IF <<m, stat>> \in df.columns THEN r.m[m][stat] ELSE NoneCell

RECURSIVE Dedup(_)
\* list(dict.fromkeys(s)): first occurrences, order kept
Dedup(s) ==
    IF s = <<>> THEN <<>>
    ELSE LET init == Dedup(SubSeq(s, 1, Len(s) - 1))
             last == s[Len(s)]
         IN IF \E j \in 1..Len(init) : init[j] = last THEN init
            ELSE Append(init, last)

Elems(s) == {s[j] : j \in 1..Len(s)}

\* the fields of one metric stream of row i, parsed as the loop body does
Parsed(df, i, m) ==
    LET r == df.rows[i]
    IN [ly_mean   |-> to_float(RowGet(df, r, m, "LY_Mean")),
        cy_mean   |-> to_float(RowGet(df, r, m, "CY_Mean")),
        ly_std    |-> to_float(RowGet(df, r, m, "LY_Std")),
        cy_std    |-> to_float(RowGet(df, r, m, "CY_Std")),
        cy_med    |-> to_float(RowGet(df, r, m, "CY_Median")),
        mean_diff |-> to_float(RowGet(df, r, m, "Mean_Diff")),
        std_diff  |-> to_float(RowGet(df, r, m, "Std_Diff")),
        t_sig     |-> to_bool(RowGet(df, r, m, "TTest_Significant")),
        mw_sig    |-> to_bool(RowGet(df, r, m, "MannWhitney_Significant")),
        ks_sig    |-> to_bool(RowGet(df, r, m, "KS_Significant")),
        anova_sig |-> to_bool(RowGet(df, r, m, "ANOVA_Significant")),
        eff       |-> EffLabel(RowGet(df, r, m, "Effect_Size")),
        cohens_d  |-> to_float(RowGet(df, r, m, "Cohens_D"))]

\* one check's contribution: the triggers it appends and the points it adds
Hit(name, points) == [trig |-> <<name>>, score |-> points]
Miss == [trig |-> <<>>, score |-> 0]

\* the checks of lines 397-490 on the parsed fields x of one metric stream,
\* under its profile p, the thresholds th, the weights w and the switches en,
\* mp_i and sp_i being the row's mean and std percentiles for the metric
MetricChecks(x, p, th, w, en, mp_i, sp_i) ==
    LET mean_mat == pct_ok(mp_i, p.min_mean_pct_for_cv)
        eff_mat  == pct_ok(mp_i, p.min_mean_pct_for_effect)
        cv_nan   == isnan(x.cy_std) \/ isnan(x.cy_mean)
        CvGE(t)  == QuotGE(FAbs(x.cy_std), FAbs(x.cy_mean), t)
        gap_nan  == isnan(x.cy_mean) \/ isnan(x.cy_med)
        skew_nan == isnan(x.cy_mean) \/ isnan(x.cy_med) \/ isnan(x.cy_std)
                    \/ (x.cy_std.inf = 0 /\ x.cy_std.v = 0)
        dist_change == (x.ks_sig = "T") \/ (x.mw_sig = "T")
        mean_change == (x.t_sig = "T") \/ (x.anova_sig = "T")
        eff_large == (x.eff = "large")
                     \/ (~isnan(x.cohens_d) /\ FGE(FAbs(x.cohens_d), th.cohens_d_large))
        eff_med   == (x.eff = "medium")
                     \/ (~isnan(x.cohens_d) /\ FGE(FAbs(x.cohens_d), th.cohens_d_medium))
        big_move  == (~(isnan(x.mean_diff) \/ isnan(x.ly_mean)))
                     /\ FMoreThanScaled(FAbs(x.mean_diff), FAbs(x.ly_mean), th.rel_mean_shift)
        cDist ==
            IF en["distribution_change"] /\ dist_change
            THEN IF eff_mat \/ mean_change \/ eff_large
                 THEN Hit("Distribution Change", w.distribution_change)
                 ELSE Hit("Distribution Change", IntScaled(w.distribution_change, 40))
            ELSE Miss
        cMean ==
            IF en["mean_shift"] /\ mean_change
            THEN IF eff_mat \/ eff_large
                 THEN Hit("Mean Shift", w.mean_shift)
                 ELSE Hit("Mean Shift", IntScaled(w.mean_shift, 50))
            ELSE IF en["mean_shift"]
                    /\ ~(isnan(x.mean_diff) \/ isnan(x.ly_mean) \/ isnan(x.cy_mean))
                    /\ QuotGE(FAbs(x.mean_diff), FAbs(x.ly_mean), th.rel_mean_shift)
                    /\ eff_mat
                 THEN Hit("Mean Shift", IntScaled(w.mean_shift, 50))
                 ELSE Miss
        cEff ==
            IF ~en["effect_size"] THEN Miss
            ELSE IF eff_large /\ (dist_change \/ mean_change \/ big_move) /\ eff_mat
                 THEN Hit("Large Effect Size", IntScaled(w.effect_large, p.effect_weight_mult))
            ELSE IF eff_med /\ (dist_change \/ mean_change) /\ eff_mat
                 THEN Hit("Medium Effect Size", IntScaled(w.effect_medium, p.effect_weight_mult))
            ELSE Miss
        cCv ==
            IF en["cv"] /\ ~cv_nan
            THEN IF CvGE(th.high_cv) /\ mean_mat
                 THEN Hit("High CV", IntScaled(w.high_cv, p.cv_weight_mult))
                 ELSE IF CvGE(th.moderate_cv) /\ mean_mat
                 THEN Hit("Moderate CV", IntScaled(w.moderate_cv, p.cv_weight_mult))
                 ELSE Miss
            ELSE Miss
        cLow ==
            IF en["low_mean_high_variance"] /\ ~cv_nan
               /\ (~mp_i.nan) /\ PctLE(mp_i, p.low_mean_pct)
               /\ pct_ok(sp_i, p.high_std_pct) /\ CvGE(th.high_cv)
            THEN Hit("Low Mean with High Variance", w.low_mean_high_variance)
            ELSE Miss
        cGap ==
            IF en["mean_median_gap"] /\ ~gap_nan
               /\ QuotGE(FAbs(FSub(x.cy_mean, x.cy_med)), FAbs(x.cy_mean),
                         th.mean_median_gap_ratio)
               /\ mean_mat
            THEN Hit("Mean-Median Gap", w.mean_median_gap)
            ELSE Miss
        cSkew ==
            IF en["pearson_skew"] /\ ~skew_nan
               /\ QuotGE(FScale(FAbs(FSub(x.cy_mean, x.cy_med)), 3), FAbs(x.cy_std),
                         th.pearson_skew_abs)
               /\ mean_mat
            THEN Hit("Pearson Skew", w.pearson_skew)
            ELSE Miss
        cVol ==
            IF en["volatility_jump"] /\ ~(isnan(x.std_diff) \/ isnan(x.ly_std))
               /\ QuotGE(FAbs(x.std_diff), FAbs(x.ly_std), th.rel_std_jump)
               /\ mean_mat
            THEN Hit("Volatility Jump", IntScaled(w.volatility_jump, p.cv_weight_mult))
            ELSE Miss
        cNew ==
            IF en["new_activity"] /\ ~(isnan(x.ly_mean) \/ isnan(x.cy_mean))
               /\ x.ly_mean.inf = 0 /\ x.ly_mean.v = 0 /\ eff_mat
               /\ (IF th.new_activity_factor < 0 THEN TRUE
                   ELSE x.cy_mean.inf # 0 \/ x.cy_mean.v # 0)
            THEN Hit("New Activity / Re-start", w.new_activity)
            ELSE Miss
        cSign ==
            IF en["sign_reversal"] /\ ~(isnan(x.ly_mean) \/ isnan(x.cy_mean))
               /\ FSign(x.ly_mean) * FSign(x.cy_mean) < 0
               /\ pct_ok(mp_i, th.sign_reversal_min_mean_pct)
            THEN Hit("Sign Reversal", w.sign_reversal)
            ELSE Miss
    IN [trig  |-> Dedup(cDist.trig \o cMean.trig \o cEff.trig \o cCv.trig \o cLow.trig
                        \o cGap.trig \o cSkew.trig \o cVol.trig \o cNew.trig \o cSign.trig),
        score |-> cDist.score + cMean.score + cEff.score + cCv.score + cLow.score
                  + cGap.score + cSkew.score + cVol.score + cNew.score + cSign.score]

------------------------------------------------------------------------

\* the body of "for m in metrics": the trigger list and the score of metric m
\* for row i, given the batch percentiles mp (mean) and sp (std) of the metric
MetricEval(df, c, mp, sp, i, m) ==
    MetricChecks(Parsed(df, i, m), prof(c, m), c.thresholds, c.weights,
                 c.enabled_checks, mp[i], sp[i])

-----
(* Tier assigner: one account *)

vol_set == {"High CV", "Moderate CV", "Mean-Median Gap", "Volatility Jump", "Pearson Skew"}

priority == <<"Distribution Change", "Mean Shift", "Large Effect Size",
              "Low Mean with High Variance", "High CV", "Mean-Median Gap",
              "Pearson Skew", "Volatility Jump", "Sign Reversal",
              "New Activity / Re-start", "Medium Effect Size", "Moderate CV">>

RECURSIVE SumSeq(_)
SumSeq(s) == IF s = <<>> THEN 0 ELSE Head(s) + SumSeq(Tail(s))

RECURSIVE Concat(_)
Concat(ss) == IF ss = <<>> THEN <<>> ELSE Head(ss) \o Concat(Tail(ss))

RECURSIVE SelectBy(_, _)
\* [x for x in s if keep[x]], keep being a function on the elements of s
SelectBy(s, keep) ==
    IF s = <<>> THEN <<>>
    ELSE IF keep[Head(s)] THEN <<Head(s)>> \o SelectBy(Tail(s), keep)
    ELSE SelectBy(Tail(s), keep)

\* the breadth bonus stopping at two metrics
TotalScore_SingleBonus(scores) ==
    SumSeq(scores) + (IF Len(scores) >= 2 THEN 2 ELSE 0)

\* total = sum(metric_scores.values()) plus the breadth bonus
TotalScore(scores) ==
    SumSeq(scores)
    + (IF Len(scores) >= 2 THEN 2 ELSE 0)
    + (IF Len(scores) >= 3 THEN 2 ELSE 0)

\* max(...) of the defined mean percentiles, NaN when there is none
MaxPct(S) ==
    IF S = {} THEN PctNaN
    ELSE CHOOSE p \in S : \A q \in S : p.r2 * q.n >= q.r2 * p.n


\* the exclusion with the gate comparison turned around
PureVolatilityDrop_GateInverted(c, uniq_triggers, max_mean_pct) ==
    /\ uniq_triggers # <<>>
    /\ \A j \in 1..Len(uniq_triggers) : uniq_triggers[j] \in vol_set
    /\ (max_mean_pct.nan
        \/ ~PctLT(max_mean_pct, c.tiers.drop_pure_volatility_below_mean_pct))

\* the pure-volatility exclusion: "continue" when every trigger is a
\* volatility trigger and the best mean percentile is NaN or below the gate
PureVolatilityDrop(c, uniq_triggers, max_mean_pct) ==
    /\ uniq_triggers # <<>>
    /\ \A j \in 1..Len(uniq_triggers) : uniq_triggers[j] \in vol_set
    /\ (max_mean_pct.nan
        \/ PctLT(max_mean_pct, c.tiers.drop_pure_volatility_below_mean_pct))


\* the gate with "any" where the code has "not any"
RequireSignalDrop_AnyInsteadOfNone(c, uniq_triggers) ==
    /\ c.tiers.require_any_of_triggers # <<>>
    /\ \E j \in 1..Len(c.tiers.require_any_of_triggers) :
           c.tiers.require_any_of_triggers[j] \in Elems(uniq_triggers)

\* the require-signal gate: "continue" when the allow-list is non-empty and
\* holds none of the triggers
RequireSignalDrop(c, uniq_triggers) ==
    /\ c.tiers.require_any_of_triggers # <<>>
    /\ ~\E j \in 1..Len(c.tiers.require_any_of_triggers) :
           c.tiers.require_any_of_triggers[j] \in Elems(uniq_triggers)


\* the tier rule without the materiality gate on Tier-1
AssignTier_NoMaterialityGate(c, total, max_mean_pct) ==
    IF total >= c.tiers.tier1_min_score THEN "Tier-1"
    ELSE IF total >= c.tiers.tier2_min_score THEN "Tier-2"
    ELSE IF total >= c.tiers.tier3_min_score /\ c.tiers.include_tier3 THEN "Tier-3"
    ELSE ""

\* the tier rule with the Tier-1 score comparison turned around
AssignTier_ScoreBelowMin(c, total, max_mean_pct) ==
    IF total <= c.tiers.tier1_min_score
       /\ (((~max_mean_pct.nan) /\ PctGE(max_mean_pct, c.tiers.tier1_materiality_pct))
           \/ total >= c.tiers.tier1_override_score)
    THEN "Tier-1"
    ELSE IF total >= c.tiers.tier2_min_score THEN "Tier-2"
    ELSE IF total >= c.tiers.tier3_min_score /\ c.tiers.include_tier3 THEN "Tier-3"
    ELSE ""

\* the tier of an account that passed both gates, "" when it is dropped
AssignTier(c, total, max_mean_pct) ==
    IF total >= c.tiers.tier1_min_score
       /\ (((~max_mean_pct.nan) /\ PctGE(max_mean_pct, c.tiers.tier1_materiality_pct))
           \/ total >= c.tiers.tier1_override_score)
    THEN "Tier-1"
    ELSE IF total >= c.tiers.tier2_min_score THEN "Tier-2"
    ELSE IF total >= c.tiers.tier3_min_score /\ c.tiers.include_tier3 THEN "Tier-3"
    ELSE ""

\* the index of the last maximum instead of the first
FirstMax_LastMaximum(scores) ==
    CHOOSE j \in 1..Len(scores) :
        /\ \A k \in 1..Len(scores) : scores[k] <= scores[j]
        /\ \A k \in (j + 1)..Len(scores) : scores[k] < scores[j]

\* the index of the first maximum of a non-empty sequence of scores
FirstMax(scores) ==
    CHOOSE j \in 1..Len(scores) :
        /\ \A k \in 1..Len(scores) : scores[k] <= scores[j]
        /\ \A k \in 1..(j - 1) : scores[k] < scores[j]

RECURSIVE SortDesc(_, _)
\* sorted(items, key=score, reverse=True): stable, highest score first
SortDesc(ms, score) ==
    IF ms = <<>> THEN <<>>
    ELSE LET best == CHOOSE j \in 1..Len(ms) :
                        /\ \A k \in 1..Len(ms) : score[ms[k]] <= score[ms[j]]
                        /\ \A k \in 1..(j - 1) : score[ms[k]] < score[ms[j]]
         IN <<ms[best]>> \o SortDesc(SubSeq(ms, 1, best - 1) \o SubSeq(ms, best + 1, Len(ms)), score)

\* the triggers in priority order, then any trigger outside the priority list
OrderTriggers(uniq_triggers) ==
    LET inPrio == [t \in Elems(priority) |-> t \in Elems(uniq_triggers)]
        rest   == [t \in Elems(uniq_triggers) |-> t \notin Elems(priority)]
    IN SelectBy(priority, inPrio) \o SelectBy(uniq_triggers, rest)

\* the slice that keeps the whole list
Take_NoCap(s, n) == s

\* s[:n]
Take(s, n) == SubSeq(s, 1, IF Len(s) < n THEN Len(s) ELSE n)

\* lines 513-599 for one row r: from the per-metric results ev (trigger list
\* and score of each detected metric) and the row's mean percentiles mp_i to
\* the locals of the iteration, the gate that ended it (outcome) and the row
\* it appends, if any
AccountRow(r, c, ms, mp_i, ev) ==
    LET scoring  == [m \in Elems(ms) |-> ev[m].score > 0]
        scored   == SelectBy(ms, scoring)
        scores   == [j \in 1..Len(scored) |-> ev[scored[j]].score]
        total    == TotalScore(scores)
        uniq     == Dedup(Concat([j \in 1..Len(scored) |-> ev[scored[j]].trig]))
        maxp     == MaxPct({mp_i[m] : m \in {x \in Elems(scored) : ~mp_i[x].nan}})
        outcome  == IF scored = <<>> THEN "no_score"
                    ELSE IF PureVolatilityDrop(c, uniq, maxp) THEN "pure_volatility"
                    ELSE IF RequireSignalDrop(c, uniq) THEN "no_signal"
                    ELSE IF AssignTier(c, total, maxp) = "" THEN "below_tier"
                    ELSE AssignTier(c, total, maxp)
        scoreOf  == [m \in Elems(scored) |-> ev[m].score]
        ordered_metrics == SortDesc(scored, scoreOf)
    IN [code     |-> r.code,
        scored   |-> scored,
        scores   |-> scores,
        total    |-> total,
        uniq_triggers |-> uniq,
        max_mean_pct  |-> maxp,
        outcome  |-> outcome,
        row |-> IF outcome \in {"Tier-1", "Tier-2", "Tier-3"}
                THEN <<[Tier |-> outcome,
                        AccountCode |-> r.code,
                        AccountName |-> r.name,
                        KeyMetricsTriggered |-> Take(OrderTriggers(uniq), 6),
                        Streams |-> Take(ordered_metrics, 3),
                        More |-> Len(ordered_metrics) - Len(Take(ordered_metrics, 3)),
                        Score |-> total,
                        DominantMetric |-> scored[FirstMax(scores)]]>>
                ELSE <<>>]

\* one iteration of "for idx, r in df.iterrows()"
AccountEval(df, c, ms, mp, sp, i) ==
    AccountRow(df.rows[i], c, ms, [m \in Elems(ms) |-> mp[m][i]],
               [m \in Elems(ms) |-> MetricEval(df, c, mp[m], sp[m], i, m)])

-----------------------------------------------------------------------------
(* Ordering and the Tier-1 cap *)

tier_rank(t) ==
    CASE t = "Tier-1" -> 1 [] t = "Tier-2" -> 2 [] t = "Tier-3" -> 3 [] OTHER -> 9

\* row a sorts strictly before row b: tier ascending, then Score descending
Before(a, b) ==
    \/ tier_rank(a.Tier) < tier_rank(b.Tier)
    \/ (tier_rank(a.Tier) = tier_rank(b.Tier) /\ a.Score > b.Score)

RECURSIVE SortReport(_)
\* sort_values(["_tr", "Score"], ascending=[True, False]): a stable sort
SortReport(rs) ==
    IF rs = <<>> THEN <<>>
    ELSE LET first == CHOOSE j \in 1..Len(rs) :
                         /\ \A k \in 1..Len(rs) : ~Before(rs[k], rs[j])
                         /\ \A k \in 1..(j - 1) : Before(rs[j], rs[k])
         IN <<rs[first]>> \o SortReport(SubSeq(rs, 1, first - 1) \o SubSeq(rs, first + 1, Len(rs)))

Tier1Count(rs) == Cardinality({j \in 1..Len(rs) : rs[j].Tier = "Tier-1"})


\* the cap slicing one row too late: t1_idxs[max_tier1 + 1:]
CapTier1_OffByOne(c, sorted) ==
    IF c.tiers.max_tier1 # 0 /\ Tier1Count(sorted) > c.tiers.max_tier1
    THEN LET nth(j) == Cardinality({k \in 1..j : sorted[k].Tier = "Tier-1"})
             demoted == [j \in 1..Len(sorted) |->
                           IF sorted[j].Tier = "Tier-1" /\ nth(j) > c.tiers.max_tier1 + 1
                           THEN [sorted[j] EXCEPT !.Tier = "Tier-2"]
                           ELSE sorted[j]]
         IN SortReport(demoted)
    ELSE sorted

\* the cap without the second sort
CapTier1_NoResort(c, sorted) ==
    IF c.tiers.max_tier1 # 0 /\ Tier1Count(sorted) > c.tiers.max_tier1
    THEN LET nth(j) == Cardinality({k \in 1..j : sorted[k].Tier = "Tier-1"})
         IN [j \in 1..Len(sorted) |->
                IF sorted[j].Tier = "Tier-1" /\ nth(j) > c.tiers.max_tier1
                THEN [sorted[j] EXCEPT !.Tier = "Tier-2"]
                ELSE sorted[j]]
    ELSE sorted

\* the cap: when max_tier1 is truthy and more rows than that are Tier-1, the
\* Tier-1 rows after the first max_tier1 become Tier-2 and the table is
\* sorted again
CapTier1(c, sorted) ==
    IF c.tiers.max_tier1 # 0 /\ Tier1Count(sorted) > c.tiers.max_tier1
    THEN LET nth(j) == Cardinality({k \in 1..j : sorted[k].Tier = "Tier-1"})
             demoted == [j \in 1..Len(sorted) |->
                           IF sorted[j].Tier = "Tier-1" /\ nth(j) > c.tiers.max_tier1
                           THEN [sorted[j] EXCEPT !.Tier = "Tier-2"]
                           ELSE sorted[j]]
         IN SortReport(demoted)
    ELSE sorted

\* the column labels of the returned table: pd.DataFrame([]) has no columns
\* and is returned as it is (lines 601-603); otherwise the fixed selection of
\* lines 616-622
ReportColumns(rs) ==
    IF rs = <<>> THEN <<>>
    ELSE <<"Tier", "Account Code", "Account Name", "Key Metrics Triggered",
           "Metric Values", "Accounting Interpretation", "Score", "Dominant Metric">>

\* lines 601-622: the report built from the accumulated rows
FinishReport(c, rs) == IF rs = <<>> THEN <<>> ELSE CapTier1(c, SortReport(rs))


\* the column check without 'Account Name'
InputError_ForgetsName(df) ==
    IF CodeCol \notin df.columns
    THEN "Expected columns: 'Account Code', 'Account Name'"
    ELSE IF detect_metrics(df.columns) = <<>>
    THEN "No metrics detected. Expected '<Metric>_CY_Mean' columns."
    ELSE ""

\* the error build_deviation_report raises on the table, "" when it raises none
InputError(df) ==
    IF CodeCol \notin df.columns \/ NameCol \notin df.columns
    THEN "Expected columns: 'Account Code', 'Account Name'"
    ELSE IF detect_metrics(df.columns) = <<>>
    THEN "No metrics detected. Expected '<Metric>_CY_Mean' columns."
    ELSE ""

\* the ranks taken over the batch without its last row
RankAll_SkipsLastRow(df, ms, suffix) ==
    [m \in Elems(ms) |->
        [i \in 1..Len(df.rows) |->
            IF i = Len(df.rows) THEN PctNaN
            ELSE percentile_rank_abs([df EXCEPT !.rows = SubSeq(df.rows, 1, Len(df.rows) - 1)],
                                     m, suffix)[i]]]

\* the two percentile tables of a run
RankAll(df, ms, suffix) == [m \in Elems(ms) |-> percentile_rank_abs(df, m, suffix)]

\* the run visiting the rows of the table last to first
build_deviation_report_ReversedRows(df, c) ==
    LET ms == detect_metrics(df.columns)
        mp == RankAll(df, ms, "CY_Mean")
        sp == RankAll(df, ms, "CY_Std")
        N  == Len(df.rows)
    IN FinishReport(c, Concat([i \in 1..N |-> AccountEval(df, c, ms, mp, sp, N + 1 - i).row]))

\* build_deviation_report as a function of its arguments, for a table that
\* passes the input checks
build_deviation_report(df, c) ==
    LET ms == detect_metrics(df.columns)
        mp == RankAll(df, ms, "CY_Mean")
        sp == RankAll(df, ms, "CY_Std")
    IN FinishReport(c, Concat([i \in 1..Len(df.rows) |-> AccountEval(df, c, ms, mp, sp, i).row]))

-----------------------------------------------------------------------------
(* Config helpers: asdict and config_from_dict *)

\* dataclasses.asdict: each dataclass becomes a dict of its fields, dict
\* values are converted in turn, tuples stay tuples
asdict(c) ==
    [thresholds |-> [k \in DOMAIN Thresholds |-> c.thresholds[k]],
     weights    |-> [k \in DOMAIN Weights |-> c.weights[k]],
     tiers      |-> [k \in DOMAIN Tiering |-> c.tiers[k]],
     profiles   |-> [m \in DOMAIN c.profiles |->
                       [k \in DOMAIN MetricProfile(m) |-> c.profiles[m][k]]],
     language   |-> [bucket_finish |-> [b \in DOMAIN c.language.bucket_finish |->
                                           c.language.bucket_finish[b]]],
     enabled_checks |-> [k \in DOMAIN c.enabled_checks |-> c.enabled_checks[k]]]


\* the merge that never overwrites the default object
SetAttrs_KeepsDefaults(obj, src) == obj

\* "for k, v in src.items(): if hasattr(obj, k): setattr(obj, k, v)"
SetAttrs(obj, src) ==
    [k \in DOMAIN obj |-> IF k \in DOMAIN src THEN src[k] ELSE obj[k]]

\* config_from_dict: a default DeviationConfig() overwritten from the dict
config_from_dict(d) ==
    LET base == DeviationConfig
        Section(name) == IF name \in DOMAIN d THEN d[name] ELSE <<>>
        profd == Section("profiles")
        bf    == IF "language" \in DOMAIN d /\ "bucket_finish" \in DOMAIN d.language
                 THEN d.language.bucket_finish ELSE <<>>
    IN [thresholds |-> SetAttrs(base.thresholds, Section("thresholds")),
        weights    |-> SetAttrs(base.weights, Section("weights")),
        tiers      |-> SetAttrs(base.tiers, Section("tiers")),
        enabled_checks |->
            [k \in DOMAIN base.enabled_checks |->
                IF k \in DOMAIN Section("enabled_checks")
                THEN Section("enabled_checks")[k] = TRUE
                ELSE base.enabled_checks[k]],
        profiles |->
            [m \in (DOMAIN base.profiles) \cup (DOMAIN profd) |->
                IF m \in DOMAIN base.profiles
                THEN (IF m \in DOMAIN profd THEN SetAttrs(base.profiles[m], profd[m])
                      ELSE base.profiles[m])
                ELSE SetAttrs(MetricProfile(m), profd[m])],
        language |->
            [bucket_finish |->
                [b \in (DOMAIN base.language.bucket_finish) \cup (DOMAIN bf) |->
                    IF b \in DOMAIN bf THEN bf[b] ELSE base.language.bucket_finish[b]]]]

-----------------------------------------------------------------------------
(* Inputs: account rows, tables, configurations *)

\* one metric stream's cells
MRec(ly, cy, lys, cys, med, md, sd, t, mw, ks, an, eff, d) ==
    [s \in Stats |->
        CASE s = "LY_Mean" -> ly [] s = "CY_Mean" -> cy [] s = "LY_Std" -> lys
          [] s = "CY_Std" -> cys [] s = "CY_Median" -> med [] s = "Mean_Diff" -> md
          [] s = "Std_Diff" -> sd [] s = "TTest_Significant" -> t
          [] s = "MannWhitney_Significant" -> mw [] s = "KS_Significant" -> ks
          [] s = "ANOVA_Significant" -> an [] s = "Effect_Size" -> eff
          [] s = "Cohens_D" -> d]

\* a stream with every cell blank
BlankStream == [s \in Stats |-> NaNCell]

\* a clear shift: mean 301.28 -> 773.04, tests significant, large effect
StrongStream ==
    MRec(Num(301), Num(773), Num(200), Num(616), Num(520), Num(472), Num(416),
         BoolCell(TRUE), BoolCell(TRUE), BoolCell(FALSE), BoolCell(TRUE),
         Str("large"), Num(102))

\* the same shift with a wider mean-median gap
SkewedStream ==
    MRec(Num(301), Num(773), Num(200), Num(616), Num(400), Num(472), Num(416),
         BoolCell(TRUE), BoolCell(TRUE), BoolCell(FALSE), BoolCell(TRUE),
         Str("large"), Num(102))

\* lumpy postings and nothing else: std above the mean
LumpyStream ==
    MRec(NaNCell, Num(100), NaNCell, Num(150), NaNCell, NaNCell, NaNCell,
         NaNCell, NaNCell, NaNCell, NaNCell, NaNCell, NaNCell)

\* only the size of the stream is known
SizeOnlyStream ==
    MRec(NaNCell, Num(5000), NaNCell, NaNCell, NaNCell, NaNCell, NaNCell,
         NaNCell, NaNCell, NaNCell, NaNCell, NaNCell, NaNCell)

\* no numbers at all, but the tests are reported significant
FlagsOnlyStream ==
    MRec(NaNCell, NaNCell, NoneCell, Str("n/a"), NaNCell, NaNCell, NaNCell,
         BoolCell(TRUE), NaNCell, Str("True"), BoolCell(FALSE),
         Str("Large"), NaNCell)

Account(code, name, credit, debit, rb, gst) ==
    [code |-> code, name |-> name,
     m |-> [x \in AllMetrics |->
              CASE x = "Credit" -> credit [] x = "Debit" -> debit
                [] x = "Running_Balance" -> rb [] x = "GST" -> gst
                [] OTHER -> BlankStream]]

AccountPool ==
    { Account("1000", "Sales Revenue", StrongStream, SizeOnlyStream, BlankStream, BlankStream),
      Account("1010", "Interest Income", StrongStream, BlankStream, BlankStream, BlankStream),
      Account("2000", "Bank Fees", BlankStream, SkewedStream, BlankStream, BlankStream),
      Account("3000", "Insurance", BlankStream, LumpyStream, BlankStream, BlankStream),
      Account("4000", "Suspense", FlagsOnlyStream, BlankStream, BlankStream, BlankStream),
      Account("5000", "GST Payable", BlankStream, BlankStream, BlankStream, BlankStream) }

MetricColumns(ms) == {<<m, s>> : m \in ms, s \in Stats}

FullColumns == {CodeCol, NameCol} \cup MetricColumns({"Credit", "Debit", "Running_Balance", "GST"})

ColumnSets ==
    { FullColumns,
      FullColumns \ {CodeCol},
      FullColumns \ {NameCol},
      FullColumns \ {<<m, "CY_Mean">> : m \in AllMetrics} }

\* the tables: up to MaxAccounts rows, no account code twice
RowSeqs ==
    UNION {{s \in [1..n -> AccountPool] : \A a, b \in 1..n : a # b => s[a] # s[b]}
           : n \in 0..MaxAccounts}

Tables == {[columns |-> cs, rows |-> s] : cs \in ColumnSets, s \in RowSeqs}

Configs ==
    { DeviationConfig,
      [DeviationConfig EXCEPT !.tiers.max_tier1 = 1,
                              !.tiers.include_tier3 = TRUE,
                              !.tiers.tier3_min_score = 2],
      [DeviationConfig EXCEPT !.tiers.max_tier1 = 0,
                              !.tiers.require_any_of_triggers = <<>>,
                              !.tiers.tier1_override_score = 16,
                              !.tiers.tier1_materiality_pct = 90,
                              !.tiers.drop_pure_volatility_below_mean_pct = 30],
      [DeviationConfig EXCEPT !.tiers.max_tier1 = 2,
                              !.tiers.require_any_of_triggers = <<"Large Effect Size", "Sign Reversal">>,
                              !.tiers.tier2_min_score = 2,
                              !.enabled_checks["pearson_skew"] = FALSE] }

-----------------------------------------------------------------------------
(* build_deviation_report, step by step *)

\* no comparison of one account's tables is part of this behaviour
EngineIdle ==
    /\ tx_previous = <<>>
    /\ tx_current = <<>>
    /\ tx_start = <<>>
    /\ self_df_last_year = <<>>
    /\ self_df_current_year = <<>>
    /\ monthly_last_year = <<>>
    /\ monthly_current_year = <<>>
    /\ comparison = <<>>
    /\ extracted = <<>>
    /\ agg_period = ""
    /\ epc = "idle"
    /\ runs = 0

\* no account name is being interpreted
InterpretIdle ==
    /\ name_arg = <<>>
    /\ bucket = ""
    /\ ipc = "idle"

\* no dashboard session is part of this behaviour
DashboardIdle ==
    /\ session_state = <<>>
    /\ up_current = "none"
    /\ up_previous = "none"
    /\ cfg_sig = ""
    /\ run_disabled = TRUE
    /\ run_log = <<>>

\* no GLAnalyzer run is part of this behaviour
AnalyzerIdle ==
    /\ account_data = <<>>
    /\ period = ""
    /\ apc = "idle"
    /\ pos = 1
    /\ all_results = <<>>
    /\ successful = 0
    /\ skipped = 0
    /\ log = <<>>
    /\ analysis_out = <<>>

Init ==
    /\ results_df \in Tables
    /\ cfg \in Configs
    /\ pc = "start"
    /\ metrics = <<>>
    /\ mean_pct = <<>>
    /\ std_pct = <<>>
    /\ idx = 1
    /\ acct = <<>>
    /\ rows = <<>>
    /\ out = <<>>
    /\ error = ""
    /\ out_columns = <<>>
    /\ cfg_start = cfg
    /\ cfg_dict = <<>>
    /\ cfg_loaded = <<>>
    /\ AnalyzerIdle
    /\ EngineIdle
    /\ InterpretIdle
    /\ DashboardIdle

\* lines 350-356: the column checks and metric detection
Validate ==
    /\ pc = "start"
    /\ error' = InputError(results_df)
    /\ IF InputError(results_df) # ""
       THEN pc' = "raised" /\ metrics' = metrics
       ELSE pc' = "rank" /\ metrics' = detect_metrics(results_df.columns)
    /\ UNCHANGED <<results_df, cfg, mean_pct, std_pct, idx, acct, rows, out,
                   out_columns, cfg_start>>
    /\ UNCHANGED <<configVars, analyzerVars, engineVars, interpVars, dashVars>>

\* lines 358-359: the percentile ranks over the whole batch
Rank ==
    /\ pc = "rank"
    /\ mean_pct' = RankAll(results_df, metrics, "CY_Mean")
    /\ std_pct' = RankAll(results_df, metrics, "CY_Std")
    /\ idx' = 1
    /\ pc' = "score"
    /\ UNCHANGED <<results_df, cfg, metrics, acct, rows, out, error,
                   out_columns, cfg_start>>
    /\ UNCHANGED <<configVars, analyzerVars, engineVars, interpVars, dashVars>>

\* lines 370-599: one iteration of the loop over the rows
ScoreAccount ==
    /\ pc = "score"
    /\ idx <= Len(results_df.rows)
    /\ LET a == AccountEval(results_df, cfg, metrics, mean_pct, std_pct, idx)
       IN /\ acct' = Append(acct, [a EXCEPT !.row = Len(a.row)])
          /\ rows' = rows \o a.row
    /\ idx' = idx + 1
    /\ UNCHANGED <<results_df, cfg, pc, metrics, mean_pct, std_pct, out, error,
                   out_columns, cfg_start>>
    /\ UNCHANGED <<configVars, analyzerVars, engineVars, interpVars, dashVars>>

\* lines 601-622: sort, cap, sort again, return
Return ==
    /\ pc = "score"
    /\ idx > Len(results_df.rows)
    /\ out' = FinishReport(cfg, rows)
    /\ out_columns' = ReportColumns(rows)
    /\ pc' = "done"
    /\ UNCHANGED <<results_df, cfg, metrics, mean_pct, std_pct, idx, acct, rows,
                   error, cfg_start>>
    /\ UNCHANGED <<configVars, analyzerVars, engineVars, interpVars, dashVars>>

Next == Validate \/ Rank \/ ScoreAccount \/ Return

Spec == Init /\ [][Next]_vars

-----------------------------------------------------------------------------
(* Export and reload of a configuration *)

ProfileSets ==
    { default_profiles,
      [default_profiles EXCEPT !["Credit"].min_mean_pct_for_cv = 50,
                               !["GST"].name = "Tax"],
      [m \in {"Credit", "Debit", "Running_Balance", "GST", "Fees"} |->
          IF m = "Fees" THEN [MetricProfile("Fees") EXCEPT !.cv_weight_mult = 50]
          ELSE default_profiles[m]],
      [m \in {"Credit", "Debit"} |-> default_profiles[m]],
      [m \in {"Fees"} |-> MetricProfile("Fees")],
      [m \in {} |-> MetricProfile(m)] }

EnabledSets ==
    { [c \in CheckNames |-> TRUE],
      [c \in CheckNames |-> c \notin {"cv", "pearson_skew"}],
      [c \in CheckNames \ {"sign_reversal"} |-> TRUE],
      [c \in CheckNames \cup {"benford"} |-> c # "benford"] }

BucketSets ==
    { Language.bucket_finish,
      [b \in (DOMAIN Language.bucket_finish) \cup {"payroll"} |->
          IF b \in {"payroll", "tax"} THEN "Review with the payroll provider."
          ELSE Language.bucket_finish[b]],
      [b \in {"general"} |-> "Check with the client."] }

TierSets ==
    { Tiering,
      [Tiering EXCEPT !.require_any_of_triggers = <<>>, !.max_tier1 = 0],
      [Tiering EXCEPT !.require_any_of_triggers = <<"Sign Reversal">>,
                      !.include_tier3 = TRUE, !.tier1_min_score = 12] }

ThresholdSets == {Thresholds, [Thresholds EXCEPT !.high_cv = 150, !.cohens_d_medium = 40]}

WeightSets == {Weights, [Weights EXCEPT !.mean_shift = 6, !.moderate_cv = 0]}

\* the DeviationConfig values a caller can build
ConfigSpace ==
    {[thresholds |-> t, weights |-> w, tiers |-> ti, profiles |-> p,
      language |-> [bucket_finish |-> b], enabled_checks |-> e] :
        t \in ThresholdSets, w \in WeightSets, ti \in TierSets,
        p \in ProfileSets, b \in BucketSets, e \in EnabledSets}

InitConfig ==
    /\ cfg \in ConfigSpace
    /\ pc = "config"
    /\ cfg_dict = <<>>
    /\ cfg_loaded = <<>>
    /\ results_df = [columns |-> {}, rows |-> <<>>]
    /\ metrics = <<>>
    /\ mean_pct = <<>>
    /\ std_pct = <<>>
    /\ idx = 1
    /\ acct = <<>>
    /\ rows = <<>>
    /\ out = <<>>
    /\ error = ""
    /\ out_columns = <<>>
    /\ cfg_start = cfg
    /\ AnalyzerIdle
    /\ EngineIdle
    /\ InterpretIdle
    /\ DashboardIdle

\* asdict(cfg): the plain dict that is saved or shared
Export ==
    /\ pc = "config"
    /\ cfg_dict' = asdict(cfg)
    /\ pc' = "exported"
    /\ UNCHANGED <<results_df, cfg, metrics, mean_pct, std_pct, idx, acct, rows,
                   out, error, out_columns, cfg_start, cfg_loaded>>
    /\ UNCHANGED <<analyzerVars, engineVars, interpVars, dashVars>>

\* config_from_dict(cfg_dict): the configuration rebuilt from the dict
Load ==
    /\ pc = "exported"
    /\ cfg_loaded' = config_from_dict(cfg_dict)
    /\ pc' = "loaded"
    /\ UNCHANGED <<results_df, cfg, metrics, mean_pct, std_pct, idx, acct, rows,
                   out, error, out_columns, cfg_start, cfg_dict>>
    /\ UNCHANGED <<analyzerVars, engineVars, interpVars, dashVars>>

NextConfig == Export \/ Load

SpecConfig == InitConfig /\ [][NextConfig]_vars

-----------------------------------------------------------------------------
(* Properties of build_deviation_report *)

Codes(rs) == {rs[j].AccountCode : j \in 1..Len(rs)}

TierOf(rs, code) ==
    IF \E j \in 1..Len(rs) : rs[j].AccountCode = code
    THEN (CHOOSE r \in Elems(rs) : r.AccountCode = code).Tier
    ELSE "absent"

ScoreOf(rs, code) ==
    IF \E j \in 1..Len(rs) : rs[j].AccountCode = code
    THEN (CHOOSE r \in Elems(rs) : r.AccountCode = code).Score
    ELSE 0

\* C1 as stated: for every non-negative max_tier1 the report has at most
\* max_tier1 Tier-1 rows.
C1_CapForEveryMax ==
    pc = "done" => Tier1Count(out) <= cfg.tiers.max_tier1

\* C1: with a positive max_tier1 the returned report has at most max_tier1
\* rows whose Tier is Tier-1.
C1_CapForPositiveMax ==
    (pc = "done" /\ cfg.tiers.max_tier1 > 0) => Tier1Count(out) <= cfg.tiers.max_tier1

\* the cap acted: more rows qualified for Tier-1 than the positive cap allows
C1_Witness ==
    /\ pc = "done"
    /\ cfg.tiers.max_tier1 > 0
    /\ Tier1Count(rows) > cfg.tiers.max_tier1
    /\ Tier1Count(out) = cfg.tiers.max_tier1

NumericStats == {"LY_Mean", "CY_Mean", "LY_Std", "CY_Std", "CY_Median",
                 "Mean_Diff", "Std_Diff", "Cohens_D"}

FlagStats == {"TTest_Significant", "MannWhitney_Significant", "KS_Significant",
              "ANOVA_Significant"}

\* every numeric cell of row i is not a number, for every metric stream
NoNumbers(i) ==
    \A m \in AllMetrics : \A s \in NumericStats : results_df.rows[i].m[m][s].k # "num"

\* a cell that states True: a true boolean or one of the accepted texts
StatesTrue(x) ==
    \/ (x.k = "bool" /\ x.v = 1)
    \/ (x.k = "str" /\ x.s \in {"true", "True", "TRUE", " true ", "t", "1", "yes", "Yes", " yes", "y"})

\* no significance flag of row i states True, for every metric stream
NoFlagTrue(i) ==
    \A m \in AllMetrics : \A s \in FlagStats : ~StatesTrue(results_df.rows[i].m[m][s])

\* C2 as stated: an account whose numeric fields are all not-a-number scores
\* 0 and has no row in the output.
C2_NoNumbersNoRow ==
    pc = "done" =>
        \A i \in 1..Len(acct) :
            NoNumbers(i) => (acct[i].total = 0 /\ acct[i].code \notin Codes(out))

\* C2: an account whose numeric fields are all not-a-number and none of whose
\* significance flags is true scores 0 and has no row in the output.
C2_NoEvidenceNoRow ==
    pc = "done" =>
        \A i \in 1..Len(acct) :
            (NoNumbers(i) /\ NoFlagTrue(i)) =>
                (acct[i].total = 0 /\ acct[i].code \notin Codes(out))

\* a blank account was scored next to accounts that made the report
C2_Witness ==
    /\ pc = "done"
    /\ out # <<>>
    /\ \E i \in 1..Len(acct) :
          NoNumbers(i) /\ NoFlagTrue(i) /\ acct[i].total = 0
          /\ acct[i].code \notin Codes(out)

\* the bijections of 1..n
Perms(n) == {f \in [1..n -> 1..n] : \A a, b \in 1..n : a # b => f[a] # f[b]}

Permuted(df, f) == [df EXCEPT !.rows = [j \in 1..Len(df.rows) |-> df.rows[f[j]]]]

\* C3: on every permutation of the batch rows each account gets the same final
\* Tier and the same Score as on the original order.
C3_PermutationKeepsTierAndScore ==
    pc = "done" =>
        \A f \in Perms(Len(results_df.rows)) :
            LET rep == build_deviation_report(Permuted(results_df, f), cfg)
            IN \A j \in 1..Len(results_df.rows) :
                  LET code == results_df.rows[j].code
                  IN /\ TierOf(rep, code) = TierOf(out, code)
                     /\ ScoreOf(rep, code) = ScoreOf(out, code)

-----------------------------------------------------------------------------
(* Properties of the config helpers (under SpecConfig) *)

\* C4 as stated: for every DeviationConfig value, config_from_dict(asdict(cfg))
\* equals cfg field for field.
C4_RoundTripOfEveryConfig ==
    pc = "loaded" => cfg_loaded = cfg

\* the configurations that keep every default key: a profile for each of the
\* four default metrics, exactly the ten default check names, and a text for
\* each of the seven default buckets
KeepsDefaultKeys(c) ==
    /\ DOMAIN default_profiles \subseteq DOMAIN c.profiles
    /\ DOMAIN c.enabled_checks = CheckNames
    /\ DOMAIN Language.bucket_finish \subseteq DOMAIN c.language.bucket_finish

\* C4: for every DeviationConfig value that keeps the default keys (it may add
\* profiles and buckets and change any value), config_from_dict(asdict(cfg))
\* equals cfg field for field, per-metric profiles and the tuple-valued
\* require_any_of_triggers included.
C4_RoundTripKeepingDefaultKeys ==
    (pc = "loaded" /\ KeepsDefaultKeys(cfg)) => cfg_loaded = cfg

\* a reloaded configuration that differs from the defaults in every section
C4_Witness ==
    /\ pc = "loaded"
    /\ KeepsDefaultKeys(cfg)
    /\ "Fees" \in DOMAIN cfg.profiles
    /\ "payroll" \in DOMAIN cfg.language.bucket_finish
    /\ cfg.tiers.require_any_of_triggers = <<"Sign Reversal">>
    /\ cfg.thresholds # Thresholds
    /\ cfg.weights # Weights
    /\ ~cfg.enabled_checks["cv"]
    /\ cfg_loaded = cfg

-----------------------------------------------------------------------------
(* Properties of the tier assigner *)

\* the tier1_min_score values the monotonicity claim is checked on
Tier1MinScores == {0, 10, 14, 17, 18, 19, 20, 21, 30}

WithTier1Min(c, t) == [c EXCEPT !.tiers.tier1_min_score = t]

\* C5: a run with a larger tier1_min_score, all else equal, never returns more
\* Tier-1 rows (and a run with a smaller one never returns fewer).
C5_RaisingTier1MinNeverAddsTier1 ==
    pc = "done" =>
        \A t \in Tier1MinScores :
            LET n == Tier1Count(build_deviation_report(results_df, WithTier1Min(cfg, t)))
            IN /\ (t >= cfg.tiers.tier1_min_score => n <= Tier1Count(out))
               /\ (t <= cfg.tiers.tier1_min_score => n >= Tier1Count(out))

\* raising the score cutoff removed some, but not all, Tier-1 rows
C5_Witness ==
    /\ pc = "done"
    /\ \E t \in Tier1MinScores :
          LET n == Tier1Count(build_deviation_report(results_df, WithTier1Min(cfg, t)))
          IN t > cfg.tiers.tier1_min_score /\ 0 < n /\ n < Tier1Count(out)

\* C6: the returned rows are ordered by tier ascending and, within one tier,
\* by Score non-increasing, also after Tier-1 overflow was demoted.
C6_SortedByTierThenScore ==
    pc = "done" =>
        \A j, k \in 1..Len(out) :
            j < k =>
                /\ tier_rank(out[j].Tier) <= tier_rank(out[k].Tier)
                /\ (out[j].Tier = out[k].Tier => out[j].Score >= out[k].Score)

\* a demoted row had to move behind a higher-scoring Tier-2 row
C6_Witness ==
    /\ pc = "done"
    /\ Tier1Count(rows) > Tier1Count(out)
    /\ \E j, k \in 1..Len(out) :
          /\ j < k
          /\ out[j].Tier = "Tier-2" /\ out[k].Tier = "Tier-2"
          /\ TierOf(rows, out[j].AccountCode) = "Tier-2"
          /\ TierOf(rows, out[k].AccountCode) = "Tier-1"
          /\ out[j].Score > out[k].Score

\* the account's triggers are all volatility triggers and its best
\* materiality percentile is undefined or below the gate
OnlyVolatilityBelowGate(a) ==
    /\ a.uniq_triggers # <<>>
    /\ Elems(a.uniq_triggers) \subseteq
          {"High CV", "Moderate CV", "Mean-Median Gap", "Pearson Skew", "Volatility Jump"}
    /\ (a.max_mean_pct.nan
        \/ 100 * a.max_mean_pct.r2 <
              cfg.tiers.drop_pure_volatility_below_mean_pct * 2 * a.max_mean_pct.n)

\* none of the account's triggers is in the allow-list
NoAllowedTrigger(a) ==
    Elems(a.uniq_triggers) \cap Elems(cfg.tiers.require_any_of_triggers) = {}

\* the account scored and passed the exclusion and the require-signal gate
PassedGates(a) ==
    /\ a.scored # <<>>
    /\ ~OnlyVolatilityBelowGate(a)
    /\ ~(cfg.tiers.require_any_of_triggers # <<>> /\ NoAllowedTrigger(a))

\* the tier the claim gives a total T with best materiality percentile P
ClaimedTier(T, P) ==
    IF T >= cfg.tiers.tier1_min_score
       /\ ((~P.nan /\ 100 * P.r2 >= cfg.tiers.tier1_materiality_pct * 2 * P.n)
           \/ T >= cfg.tiers.tier1_override_score)
    THEN "Tier-1"
    ELSE IF T >= cfg.tiers.tier2_min_score THEN "Tier-2"
    ELSE IF T >= cfg.tiers.tier3_min_score /\ cfg.tiers.include_tier3 THEN "Tier-3"
    ELSE "absent"

\* C7: an account that passes both gates gets, before the cap, Tier-1 iff
\* T >= tier1_min_score and (P >= tier1_materiality_pct or T >=
\* tier1_override_score), else Tier-2 iff T >= tier2_min_score, else Tier-3 iff
\* T >= tier3_min_score with include_tier3, else no row.
C7_TierBeforeCap ==
    \A i \in 1..Len(acct) :
        PassedGates(acct[i]) =>
            /\ TierOf(rows, acct[i].code) = ClaimedTier(acct[i].total, acct[i].max_mean_pct)
            /\ ScoreOf(rows, acct[i].code) =
                  (IF ClaimedTier(acct[i].total, acct[i].max_mean_pct) = "absent"
                   THEN 0 ELSE acct[i].total)

\* one run with a Tier-1 row by the score override and an account that
\* passed both gates and is below every tier
C7_Witness ==
    /\ pc = "done"
    /\ \E i \in 1..Len(acct) :
          /\ PassedGates(acct[i])
          /\ TierOf(rows, acct[i].code) = "Tier-1"
          /\ 100 * acct[i].max_mean_pct.r2 < cfg.tiers.tier1_materiality_pct * 2 * acct[i].max_mean_pct.n
    /\ \E i \in 1..Len(acct) : PassedGates(acct[i]) /\ TierOf(rows, acct[i].code) = "absent"

\* C8: an account whose fired triggers are all pure-volatility triggers and
\* whose best materiality percentile is undefined or below
\* drop_pure_volatility_below_mean_pct has no row in the output.
C8_PureVolatilityDropped ==
    \A i \in 1..Len(acct) :
        OnlyVolatilityBelowGate(acct[i]) =>
            (acct[i].code \notin Codes(rows) /\ acct[i].code \notin Codes(out))

\* under the default gate 0.80 an account with only High CV fired, a positive
\* score and percentile 0.50 is left out of a report that has other rows
C8_Witness ==
    /\ pc = "done"
    /\ cfg.tiers.drop_pure_volatility_below_mean_pct = 80
    /\ out # <<>>
    /\ \E i \in 1..Len(acct) :
          /\ acct[i].uniq_triggers = <<"High CV">>
          /\ acct[i].total > 0
          /\ acct[i].max_mean_pct = [nan |-> FALSE, r2 |-> 2, n |-> 2]
          /\ acct[i].code \notin Codes(out)

\* C9 as stated: for every allow-list, the empty one included, an account none
\* of whose fired triggers is in the list has no row in the output.
C9_NoAllowedTriggerNoRow ==
    pc = "done" =>
        \A i \in 1..Len(acct) :
            NoAllowedTrigger(acct[i]) => acct[i].code \notin Codes(out)

\* C9: for every non-empty allow-list, an account none of whose fired
\* triggers is in the list has no row in the output.
C9_NonEmptyAllowList ==
    pc = "done" =>
        \A i \in 1..Len(acct) :
            (cfg.tiers.require_any_of_triggers # <<>> /\ NoAllowedTrigger(acct[i]))
                => acct[i].code \notin Codes(out)

\* an account that scored enough for a tier and is not volatility-only is
\* left out because none of its triggers is in the allow-list
C9_Witness ==
    /\ pc = "done"
    /\ cfg.tiers.require_any_of_triggers # <<>>
    /\ \E i \in 1..Len(acct) :
          /\ NoAllowedTrigger(acct[i])
          /\ ~OnlyVolatilityBelowGate(acct[i])
          /\ acct[i].total >= cfg.tiers.tier2_min_score
          /\ acct[i].code \notin Codes(out)

\* the table lacks 'Account Code', 'Account Name' or every '<Metric>_CY_Mean'
LacksRequiredColumn(df) ==
    \/ <<"", "Account Code">> \notin df.columns
    \/ <<"", "Account Name">> \notin df.columns
    \/ ~\E c \in df.columns : c[2] = "CY_Mean"

\* C10: on a table that lacks a required column the run ends with an error
\* message at its first step: no percentile is ranked, no account is scored
\* and no report is returned.
C10_MissingColumnFailsFirst ==
    LacksRequiredColumn(results_df) =>
        /\ pc \in {"start", "raised"}
        /\ (pc = "raised" => error # "")
        /\ (pc = "start" => error = "")
        /\ mean_pct = <<>> /\ acct = <<>> /\ rows = <<>> /\ out = <<>>

\* the run on a table with rows but no 'Account Name' column has raised
C10_Witness ==
    /\ pc = "raised"
    /\ error # ""
    /\ Len(results_df.rows) > 1
    /\ <<"", "Account Name">> \notin results_df.columns
    /\ <<"", "Account Code">> \in results_df.columns

-----------------------------------------------------------------------------
(* GLAnalyzer.run_analysis_for_all_accounts (src/analyzer.py) with the      *)
(* statistical engine it drives (src/statisticsal_inferences.py)            *)

\* the largest number of accounts in account_data
MaxBatch == 2

\* a year's transactions of one account, by what the engine can do with them:
\*   "empty"          no rows (DataFrame.empty)
\*   "no_date_column" rows without a 'Date' column (a corrupt sub-record)
\*   "undated"        rows none of whose dates can be parsed
\*   "flat"           dated rows whose period sums take one distinct value
\*   "varied"         dated rows whose period sums take several values
FrameKinds == {"empty", "no_date_column", "undated", "flat", "varied"}

ValidPeriods == {"weekly", "bi-weekly", "monthly", "quarterly"}

Periods == ValidPeriods \cup {"daily"}

CodeOrder == <<"1000", "2000", "3000">>

NameOf(code) ==
    CASE code = "1000" -> "Sales Revenue" [] code = "2000" -> "Bank Fees"
      [] OTHER -> "Insurance"

\* the account_data dicts: what DataLoader.load_from_json builds
AccountBatches ==
    UNION {{[c \in S |-> [account_name |-> NameOf(c),
                         current_year |-> g[c][1],
                         previous_year |-> g[c][2]]]
               : g \in [S -> FrameKinds \X FrameKinds]}
           : S \in {T \in SUBSET Elems(CodeOrder) : Cardinality(T) <= MaxBatch}}

\* load_and_prepare_data: None for an empty frame, KeyError without 'Date',
\* the rows with a parsable date otherwise
load_and_prepare_data(f) ==
    CASE f = "empty"          -> [raised |-> FALSE, df |-> "None"]
      [] f = "no_date_column" -> [raised |-> TRUE,  df |-> "None"]
      [] f = "undated"        -> [raised |-> FALSE, df |-> "empty"]
      [] OTHER                -> [raised |-> FALSE, df |-> f]

\* aggregate: the period sums, an empty table for no data, ValueError for an
\* unsupported period name when there are rows to aggregate
aggregate(df, p) ==
    IF df # "None" /\ df # "empty"
    THEN IF p \in ValidPeriods THEN [raised |-> FALSE, table |-> df]
         ELSE [raised |-> TRUE, table |-> "empty"]
    ELSE [raised |-> FALSE, table |-> "empty"]

\* compare_statistical_inferences: whether it raised, and whether the
\* comparison table it returned is empty (no column with more than one
\* distinct value in both years)
compare_statistical_inferences(df_last_year, df_current_year, p) ==
    LET last == aggregate(df_last_year, p)
        cur  == aggregate(df_current_year, p)
    IN IF last.raised \/ cur.raised THEN [raised |-> TRUE, comparison_empty |-> TRUE]
       ELSE [raised |-> FALSE,
             comparison_empty |-> ~(last.table = "varied" /\ cur.table = "varied")]

\* the loop body of lines 45-87 for one sub-record: which branch it ends in
AccountOutcome(data, p) ==
    IF data.current_year = "empty" /\ data.previous_year = "empty" THEN "empty"
    ELSE LET ly == load_and_prepare_data(data.previous_year)
             cy == load_and_prepare_data(data.current_year)
         IN IF ly.raised \/ cy.raised THEN "error"
            ELSE LET c == compare_statistical_inferences(ly.df, cy.df, p)
                 IN IF c.raised THEN "error"
                    ELSE IF c.comparison_empty THEN "insufficient"
                    ELSE "ok"

\* _extract_metrics: the result row (the metric columns are left out)
extract_metrics(account_code, account_name) ==
    [AccountCode |-> account_code, AccountName |-> account_name]

\* the counters with an exception left uncounted
Tally_ErrorNotCounted(outcome) ==
    [successful |-> IF outcome = "ok" THEN 1 ELSE 0,
     skipped    |-> IF outcome \in {"ok", "error"} THEN 0 ELSE 1]

\* what one account adds to the counters: "successful += 1" on a result row,
\* "skipped += 1" on every other branch
Tally(outcome) ==
    [successful |-> IF outcome = "ok" THEN 1 ELSE 0,
     skipped    |-> IF outcome = "ok" THEN 0 ELSE 1]

\* sorted(self.account_data.items())
SortedCodes(d) == FilterSeq(CodeOrder, DOMAIN d)

\* no build_deviation_report run is part of this behaviour
ReportIdle ==
    /\ results_df = [columns |-> {}, rows |-> <<>>]
    /\ cfg = DeviationConfig
    /\ cfg_start = DeviationConfig
    /\ pc = "idle"
    /\ metrics = <<>>
    /\ mean_pct = <<>>
    /\ std_pct = <<>>
    /\ idx = 1
    /\ acct = <<>>
    /\ rows = <<>>
    /\ out = <<>>
    /\ out_columns = <<>>
    /\ error = ""
    /\ cfg_dict = <<>>
    /\ cfg_loaded = <<>>

InitAnalyzer ==
    /\ account_data \in AccountBatches
    /\ period \in Periods
    /\ apc = "start"
    /\ pos = 1
    /\ all_results = <<>>
    /\ successful = 0
    /\ skipped = 0
    /\ log = <<>>
    /\ analysis_out = <<>>
    /\ ReportIdle
    /\ EngineIdle
    /\ InterpretIdle
    /\ DashboardIdle

\* lines 35-42: the banner and the empty accumulators
StartAnalysis ==
    /\ apc = "start"
    /\ all_results' = <<>>
    /\ successful' = 0
    /\ skipped' = 0
    /\ pos' = 1
    /\ apc' = "loop"
    /\ UNCHANGED <<account_data, period, log, analysis_out>>
    /\ UNCHANGED <<reportVars, configVars, engineVars, interpVars, dashVars>>

\* lines 44-87: one account of the sorted items
ProcessAccount ==
    /\ apc = "loop"
    /\ pos <= Len(SortedCodes(account_data))
    /\ LET account_code == SortedCodes(account_data)[pos]
           data == account_data[account_code]
           outcome == AccountOutcome(data, period)
       IN /\ all_results' = IF outcome = "ok"
                            THEN Append(all_results,
                                        extract_metrics(account_code, data.account_name))
                            ELSE all_results
          /\ successful' = successful + Tally(outcome).successful
          /\ skipped' = skipped + Tally(outcome).skipped
          /\ log' = Append(log, [code |-> account_code, outcome |-> outcome])
    /\ pos' = pos + 1
    /\ UNCHANGED <<account_data, period, apc, analysis_out>>
    /\ UNCHANGED <<reportVars, configVars, engineVars, interpVars, dashVars>>

\* lines 89-100: the summary and the result table
ReturnResults ==
    /\ apc = "loop"
    /\ pos > Len(SortedCodes(account_data))
    /\ analysis_out' = all_results
    /\ apc' = "returned"
    /\ UNCHANGED <<account_data, period, pos, all_results, successful, skipped, log>>
    /\ UNCHANGED <<reportVars, configVars, engineVars, interpVars, dashVars>>

NextAnalyzer == StartAnalysis \/ ProcessAccount \/ ReturnResults

SpecAnalyzer == InitAnalyzer /\ [][NextAnalyzer]_vars

\* C11 as stated: a run with a period name outside weekly, bi-weekly,
\* monthly, quarterly never completes normally and never returns a table.
C11_InvalidPeriodNeverReturns ==
    period \notin ValidPeriods => apc # "returned"

\* C12: when the loop has ended, every account of the batch was processed
\* (also those after an account that raised), an account that raised has no
\* result row, successful + skipped is the number of accounts and the result
\* table has exactly 'successful' rows.
C12_ExceptionSkipsOneAccount ==
    apc = "returned" =>
        /\ Len(log) = Cardinality(DOMAIN account_data)
        /\ {log[j].code : j \in 1..Len(log)} = DOMAIN account_data
        /\ \A j \in 1..Len(log) :
              log[j].outcome = "error" =>
                  \A k \in 1..Len(analysis_out) : analysis_out[k].AccountCode # log[j].code
        /\ successful + skipped = Cardinality(DOMAIN account_data)
        /\ Len(analysis_out) = successful

\* a returned run whose first account raised (a sub-record without dates
\* column, under a supported period) and whose second account got its row
C12_Witness ==
    /\ apc = "returned"
    /\ period \in ValidPeriods
    /\ Len(log) = 2
    /\ log[1].outcome = "error"
    /\ log[2].outcome = "ok"
    /\ Len(analysis_out) = 1

-----------------------------------------------------------------------------
(* A second family of input tables, built around single signals *)

\* the example of the help text cut down to four cells: mean 301.28 ->
\* 773.04, t-test significant, effect label 'large'
MinimalShiftStream ==
    MRec(Num(301), Num(773), NaNCell, NaNCell, NaNCell, NaNCell, NaNCell,
         BoolCell(TRUE), NaNCell, NaNCell, NaNCell, Str("large"), NaNCell)

\* a finite mean with an infinite standard deviation
InfStdStream ==
    MRec(NaNCell, Num(100), NaNCell, InfCell(1), NaNCell, NaNCell, NaNCell,
         NaNCell, NaNCell, NaNCell, NaNCell, NaNCell, NaNCell)

\* a mean that moved by 157%, the tests run and not significant
NotSignificantMoveStream ==
    MRec(Num(301), Num(773), NaNCell, NaNCell, NaNCell, Num(472), NaNCell,
         BoolCell(FALSE), NaNCell, NaNCell, BoolCell(FALSE), NaNCell, NaNCell)

\* the same move with no test result at all
UntestedMoveStream ==
    MRec(Num(301), Num(773), NaNCell, NaNCell, NaNCell, Num(472), NaNCell,
         NaNCell, NaNCell, NaNCell, NoneCell, NaNCell, NaNCell)

SignalPool ==
    { Account("1020", "Consulting Income", MinimalShiftStream, BlankStream, BlankStream, BlankStream),
      Account("5000", "GST Payable", BlankStream, BlankStream, BlankStream, BlankStream),
      Account("6000", "Plant Hire", BlankStream, InfStdStream, BlankStream, BlankStream),
      Account("7000", "Payroll Clearing", StrongStream, SkewedStream, BlankStream, StrongStream),
      Account("7010", "Wages", StrongStream, SkewedStream, BlankStream, BlankStream),
      Account("8000", "Rent", NotSignificantMoveStream, BlankStream, BlankStream, BlankStream),
      Account("8010", "Rates", UntestedMoveStream, BlankStream, BlankStream, BlankStream) }

SignalRowSeqs ==
    UNION {{s \in [1..n -> SignalPool] : \A a, b \in 1..n : a # b => s[a] # s[b]}
           : n \in 0..MaxAccounts}

SignalTables == {[columns |-> FullColumns, rows |-> s] : s \in SignalRowSeqs}

SignalConfigs ==
    { DeviationConfig,
      [DeviationConfig EXCEPT !.tiers.include_tier3 = TRUE,
                              !.tiers.tier3_min_score = 2,
                              !.tiers.drop_pure_volatility_below_mean_pct = 30],
      [DeviationConfig EXCEPT !.enabled_checks["mean_shift"] = FALSE] }

InitSignals ==
    /\ results_df \in SignalTables
    /\ cfg \in SignalConfigs
    /\ pc = "start"
    /\ metrics = <<>>
    /\ mean_pct = <<>>
    /\ std_pct = <<>>
    /\ idx = 1
    /\ acct = <<>>
    /\ rows = <<>>
    /\ out = <<>>
    /\ error = ""
    /\ out_columns = <<>>
    /\ cfg_start = cfg
    /\ cfg_dict = <<>>
    /\ cfg_loaded = <<>>
    /\ AnalyzerIdle
    /\ EngineIdle
    /\ InterpretIdle
    /\ DashboardIdle

SpecSignals == InitSignals /\ [][Next]_vars

-----------------------------------------------------------------------------
(* A run whose DeviationConfig object is shared with another actor *)

\* another actor assigns to the configuration object between the scoring of
\* two accounts; the run holds a reference to the object, not a copy
EditConfig ==
    /\ pc = "score"
    /\ idx > 1
    /\ idx <= Len(results_df.rows)
    /\ cfg = cfg_start
    /\ cfg' \in Configs \ {cfg}
    /\ UNCHANGED <<results_df, pc, metrics, mean_pct, std_pct, idx, acct, rows,
                   out, error, out_columns, cfg_start>>
    /\ UNCHANGED <<configVars, analyzerVars, engineVars, interpVars, dashVars>>

NextShared == Next \/ EditConfig

SpecShared == Init /\ [][NextShared]_vars

-----------------------------------------------------------------------------
(* Properties of the ranking step, the numeric parsing and the report shape *)

\* C13: no account is scored before the percentile ranks exist, and at every
\* point of the scoring loop (and at the return) the ranks of abs(CY mean) and
\* abs(CY std) of every detected metric are the ranks over the full batch.
C13_RanksBeforeScoring ==
    /\ pc \in {"start", "rank"} => acct = <<>>
    /\ pc \in {"score", "done"} =>
          /\ DOMAIN mean_pct = Elems(metrics)
          /\ DOMAIN std_pct = Elems(metrics)
          /\ \A m \in Elems(metrics) :
                /\ mean_pct[m] = percentile_rank_abs(results_df, m, "CY_Mean")
                /\ std_pct[m] = percentile_rank_abs(results_df, m, "CY_Std")

\* the loop is past its first account, in a batch of at least two accounts
\* of which two carry a ranked Credit mean
C13_Witness ==
    /\ pc = "score"
    /\ Len(acct) >= 1
    /\ idx <= Len(results_df.rows)
    /\ "Credit" \in DOMAIN mean_pct
    /\ \E i \in 1..Len(results_df.rows) :
          (~mean_pct["Credit"][i].nan) /\ mean_pct["Credit"][i].n >= 2

\* the table with every infinite cell replaced by a blank one
BlankInfinite(df) ==
    [df EXCEPT !.rows =
        [i \in 1..Len(df.rows) |->
            [df.rows[i] EXCEPT !.m =
                [m \in AllMetrics |->
                    [s \in Stats |-> IF df.rows[i].m[m][s].k = "inf" THEN NaNCell
                                     ELSE df.rows[i].m[m][s]]]]]]

\* C14 as stated: an infinite numeric field is treated exactly like a missing
\* one, so every account gets the triggers and the score it gets on the table
\* in which the infinite cells are blank.
C14_InfiniteIsMissing ==
    pc = "done" =>
        \A i \in 1..Len(acct) :
            LET df0 == BlankInfinite(results_df)
                a0  == AccountEval(df0, cfg, metrics,
                                   RankAll(df0, metrics, "CY_Mean"),
                                   RankAll(df0, metrics, "CY_Std"), i)
            IN /\ acct[i].uniq_triggers = a0.uniq_triggers
               /\ acct[i].total = a0.total

\* the example account A: the four Credit cells of the scenario
IsExampleA(r) ==
    /\ r.m["Credit"]["CY_Mean"] = Num(773)
    /\ r.m["Credit"]["LY_Mean"] = Num(301)
    /\ r.m["Credit"]["TTest_Significant"] = BoolCell(TRUE)
    /\ r.m["Credit"]["Effect_Size"] = Str("large")

\* the example account B: every Credit cell blank
IsExampleB(r) == r.m["Credit"] = BlankStream

\* C15 as stated: in a two-account batch under the default configuration, A
\* (Credit percentile >= 0.75) is reported as Tier-1 with 'Mean Shift' and
\* 'Large Effect Size' among its triggers, and B has no row.
C15_ExampleScenario ==
    (/\ pc = "done"
     /\ cfg = DeviationConfig
     /\ Len(results_df.rows) = 2) =>
        \A a, b \in 1..2 :
            (/\ a # b
             /\ IsExampleA(results_df.rows[a])
             /\ IsExampleB(results_df.rows[b])
             /\ pct_ok(mean_pct["Credit"][a], 75)) =>
                /\ results_df.rows[b].code \notin Codes(out)
                /\ \E j \in 1..Len(out) :
                      /\ out[j].AccountCode = results_df.rows[a].code
                      /\ {"Mean Shift", "Large Effect Size"}
                             \subseteq Elems(out[j].KeyMetricsTriggered)
                      /\ out[j].Tier = "Tier-1"

ExpectedColumns ==
    <<"Tier", "Account Code", "Account Name", "Key Metrics Triggered",
      "Metric Values", "Accounting Interpretation", "Score", "Dominant Metric">>

\* C16 as stated: every returned table, the one of a run that flags no
\* account included, has exactly the eight report columns in their order.
C16_ColumnsOfEveryReport ==
    pc = "done" => out_columns = ExpectedColumns

C18_EditsNotVisible ==
    pc = "done" => out = build_deviation_report(results_df, cfg_start)

\* C19: the per-account score is the sum of the scores of the metrics that
\* scored, plus 0 for one such metric, 2 for two, 4 for three or more; the
\* report row of the account carries that score.
C19_BreadthBonus ==
    \A i \in 1..Len(acct) :
        LET n == Len(acct[i].scored)
        IN n >= 1 =>
            /\ Len(acct[i].scores) = n
            /\ \A j \in 1..n : acct[i].scores[j] > 0
            /\ acct[i].total = SumSeq(acct[i].scores)
                               + (CASE n = 1 -> 0 [] n = 2 -> 2 [] OTHER -> 4)
            /\ \A j \in 1..Len(rows) :
                  rows[j].AccountCode = acct[i].code => rows[j].Score = acct[i].total

\* one run that scored an account on three metrics, one on two and one on one
C19_Witness ==
    /\ pc = "done"
    /\ \E i \in 1..Len(acct) : Len(acct[i].scored) = 3 /\ acct[i].row = 1
    /\ \E i \in 1..Len(acct) : Len(acct[i].scored) = 2 /\ acct[i].row = 1
    /\ \E i \in 1..Len(acct) : Len(acct[i].scored) = 1 /\ acct[i].row = 1

\* C20 as stated: with mean_shift enabled, when the t-test flag or the ANOVA
\* flag of a metric is present and neither is significant, 'Mean Shift' does
\* not fire for that metric (the relative-move fallback is kept for metrics
\* with both flags unavailable).
C20_FallbackOnlyWithoutFlags ==
    (pc = "done" /\ cfg.enabled_checks["mean_shift"]) =>
        \A i \in 1..Len(results_df.rows) : \A m \in Elems(metrics) :
            LET x == Parsed(results_df, i, m)
            IN ((x.t_sig # "N" \/ x.anova_sig # "N")
                /\ x.t_sig # "T" /\ x.anova_sig # "T") =>
                   "Mean Shift" \notin
                       Elems(MetricEval(results_df, cfg, mean_pct[m], std_pct[m], i, m).trig)

-----------------------------------------------------------------------------
(* A third family of input tables, built around single triggers *)

\* a mean that moved by 157% with a 'medium' effect label and no test result
MediumMoveStream ==
    MRec(Num(301), Num(773), NaNCell, NaNCell, NaNCell, Num(472), NaNCell,
         NaNCell, NaNCell, NaNCell, NaNCell, Str("medium"), NaNCell)

\* a coefficient of variation of 0.8 and nothing else
ModerateCvStream ==
    MRec(NaNCell, Num(100), NaNCell, Num(80), NaNCell, NaNCell, NaNCell,
         NaNCell, NaNCell, NaNCell, NaNCell, NaNCell, NaNCell)

\* a stream that changed sign, with significant tests, a large effect, a
\* standard deviation above the mean, a wide gap to the median and a jump of
\* the standard deviation
EverythingStream ==
    MRec(Num(-100), Num(400), Num(100), Num(500), Num(100), Num(500), Num(400),
         BoolCell(TRUE), BoolCell(TRUE), BoolCell(TRUE), BoolCell(TRUE),
         Str("large"), Num(150))

TriggerPool ==
    { Account("9000", "Freight", MediumMoveStream, BlankStream, BlankStream, BlankStream),
      Account("9100", "Fixed Assets", MinimalShiftStream, BlankStream, ModerateCvStream, BlankStream),
      Account("9200", "Contractors", MinimalShiftStream, MinimalShiftStream, BlankStream, BlankStream),
      Account("9300", "Motor Vehicle", EverythingStream, BlankStream, BlankStream, BlankStream),
      Account("9400", "Stationery", BlankStream, BlankStream, BlankStream, ModerateCvStream),
      Account("9500", "Cleaning", BlankStream, LumpyStream, BlankStream, BlankStream) }

TriggerRowSeqs ==
    UNION {{s \in [1..n -> TriggerPool] : \A a, b \in 1..n : a # b => s[a] # s[b]}
           : n \in 0..MaxAccounts}

TriggerTables == {[columns |-> FullColumns, rows |-> s] : s \in TriggerRowSeqs}

TriggerConfigs ==
    { DeviationConfig,
      [DeviationConfig EXCEPT !.enabled_checks["effect_size"] = FALSE] }

InitTriggers ==
    /\ results_df \in TriggerTables
    /\ cfg \in TriggerConfigs
    /\ pc = "start"
    /\ metrics = <<>>
    /\ mean_pct = <<>>
    /\ std_pct = <<>>
    /\ idx = 1
    /\ acct = <<>>
    /\ rows = <<>>
    /\ out = <<>>
    /\ error = ""
    /\ out_columns = <<>>
    /\ cfg_start = cfg
    /\ cfg_dict = <<>>
    /\ cfg_loaded = <<>>
    /\ AnalyzerIdle
    /\ EngineIdle
    /\ InterpretIdle
    /\ DashboardIdle

SpecTriggers == InitTriggers /\ [][Next]_vars

-----------------------------------------------------------------------------
(* Properties of the effect-size check, the trigger list and the scores *)

\* the effect is large / medium: by its label or by |Cohen's d|
EffectIsLarge(x, th) ==
    (x.eff = "large") \/ (~isnan(x.cohens_d) /\ FGE(FAbs(x.cohens_d), th.cohens_d_large))

EffectIsMedium(x, th) ==
    (x.eff = "medium") \/ (~isnan(x.cohens_d) /\ FGE(FAbs(x.cohens_d), th.cohens_d_medium))

\* a distribution change, a mean change or a large relative move of the mean
EffectSupported(x, th) ==
    \/ x.ks_sig = "T" \/ x.mw_sig = "T"
    \/ x.t_sig = "T" \/ x.anova_sig = "T"
    \/ /\ ~(isnan(x.mean_diff) \/ isnan(x.ly_mean))
       /\ FMoreThanScaled(FAbs(x.mean_diff), FAbs(x.ly_mean), th.rel_mean_shift)

\* C21 as stated: with effect_size enabled, 'Large Effect Size' fires for a
\* metric iff the effect is large, supported (distribution change, mean change
\* or a large relative move) and material; otherwise 'Medium Effect Size'
\* fires iff the effect is medium, supported in the same way and material.
C21_EffectSizeRule ==
    (pc = "done" /\ cfg.enabled_checks["effect_size"]) =>
        \A i \in 1..Len(results_df.rows) : \A m \in Elems(metrics) :
            LET x == Parsed(results_df, i, m)
                mat == pct_ok(mean_pct[m][i], prof(cfg, m).min_mean_pct_for_effect)
                large == EffectIsLarge(x, cfg.thresholds)
                         /\ EffectSupported(x, cfg.thresholds) /\ mat
                medium == ~large /\ EffectIsMedium(x, cfg.thresholds)
                          /\ EffectSupported(x, cfg.thresholds) /\ mat
                fired == Elems(MetricEval(results_df, cfg, mean_pct[m], std_pct[m], i, m).trig)
            IN /\ ("Large Effect Size" \in fired) <=> large
               /\ ("Medium Effect Size" \in fired) <=> medium

\* the whole part of w * f100 / 100, for w, f100 >= 0
Truncated(w, f100) == CHOOSE n \in 0..(w * f100) : n * 100 <= w * f100 /\ w * f100 < (n + 1) * 100

\* the points of a trigger that is weighted by a per-metric multiplier
MultipliedPoints(t, c, m) ==
    CASE t = "Large Effect Size"  -> Truncated(c.weights.effect_large, prof(c, m).effect_weight_mult)
      [] t = "Medium Effect Size" -> Truncated(c.weights.effect_medium, prof(c, m).effect_weight_mult)
      [] t = "High CV"            -> Truncated(c.weights.high_cv, prof(c, m).cv_weight_mult)
      [] t = "Moderate CV"        -> Truncated(c.weights.moderate_cv, prof(c, m).cv_weight_mult)
      [] t = "Volatility Jump"    -> Truncated(c.weights.volatility_jump, prof(c, m).cv_weight_mult)
      [] OTHER -> -1

\* C30: a metric whose only trigger is weighted by a per-metric multiplier
\* scores the truncated product; a metric is recorded as scored iff its score
\* is above 0, and only the triggers of scored metrics are reported; under
\* the default configuration a Running_Balance or GST metric whose only
\* trigger is 'Moderate CV' scores 0 and is not recorded.
C30_TruncatedPoints ==
    \A i \in 1..Len(acct) : \A m \in Elems(metrics) :
        LET e == MetricEval(results_df, cfg, mean_pct[m], std_pct[m], i, m)
        IN /\ (m \in Elems(acct[i].scored)) <=> (e.score > 0)
           /\ (Len(e.trig) = 1 /\ MultipliedPoints(e.trig[1], cfg, m) >= 0) =>
                  e.score = MultipliedPoints(e.trig[1], cfg, m)
           /\ \A t \in Elems(acct[i].uniq_triggers) :
                  \E k \in Elems(acct[i].scored) :
                      t \in Elems(MetricEval(results_df, cfg, mean_pct[k], std_pct[k], i, k).trig)
           /\ (cfg = DeviationConfig /\ m \in {"Running_Balance", "GST"}
               /\ e.trig = <<"Moderate CV">>) =>
                  (e.score = 0 /\ m \notin Elems(acct[i].scored))

\* a finished default run that reported account 9100 on its Credit stream
\* alone, its Running_Balance stream having fired 'Moderate CV' for 0 points
C30_Witness ==
    /\ pc = "done"
    /\ cfg = DeviationConfig
    /\ \E i \in 1..Len(acct) :
          /\ acct[i].code = "9100"
          /\ acct[i].scored = <<"Credit">>
          /\ acct[i].row = 1
          /\ MetricEval(results_df, cfg, mean_pct["Running_Balance"],
                        std_pct["Running_Balance"], i, "Running_Balance").trig
             = <<"Moderate CV">>
          /\ \E j \in 1..Len(out) :
                /\ out[j].AccountCode = "9100"
                /\ "Moderate CV" \notin Elems(out[j].KeyMetricsTriggered)

\* the order of trigger names that the report promises
ListedOrder ==
    <<"Distribution Change", "Mean Shift", "Large Effect Size",
      "Low Mean with High Variance", "High CV", "Mean-Median Gap", "Pearson Skew",
      "Volatility Jump", "Sign Reversal", "New Activity / Re-start",
      "Medium Effect Size", "Moderate CV">>

ListedAt(t) == CHOOSE j \in 1..Len(ListedOrder) : ListedOrder[j] = t

\* the triggers that fired for any metric of the account with the given code
FiredFor(code) ==
    UNION { Elems(MetricEval(results_df, cfg, mean_pct[m], std_pct[m], i, m).trig) :
            <<i, m>> \in {p \in (1..Len(results_df.rows)) \X Elems(metrics) :
                            results_df.rows[p[1]].code = code} }

\* C24: in every output row 'Key Metrics Triggered' holds at most 6 names,
\* all of the promised list, strictly ascending in its order (hence no name
\* twice), each one fired for a metric of the account.
C24_KeyTriggersList ==
    \A j \in 1..Len(rows) :
        LET K == rows[j].KeyMetricsTriggered
        IN /\ Len(K) <= 6
           /\ \A a \in 1..Len(K) : K[a] \in Elems(ListedOrder)
           /\ \A a, b \in 1..Len(K) : a < b => ListedAt(K[a]) < ListedAt(K[b])
           /\ \A a \in 1..Len(K) : K[a] \in FiredFor(rows[j].AccountCode)

\* a finished run with a row of six names for an account that fired more
\* than six distinct triggers
C24_Witness ==
    /\ pc = "done"
    /\ \E j \in 1..Len(out) :
          /\ Len(out[j].KeyMetricsTriggered) = 6
          /\ Cardinality(FiredFor(out[j].AccountCode)) > 6
          /\ out[j].KeyMetricsTriggered[1] = "Distribution Change"

\* the position of metric m in the detection order of the run
DetectedAt(m) == CHOOSE j \in 1..Len(metrics) : metrics[j] = m

\* the per-metric score of metric m for the account with the given code
MetricScoreOf(code, m) ==
    LET i == CHOOSE k \in 1..Len(results_df.rows) : results_df.rows[k].code = code
    IN MetricEval(results_df, cfg, mean_pct[m], std_pct[m], i, m).score

\* C28: in every output row the Dominant Metric has the highest per-metric
\* score of the account, every metric detected before it has a strictly
\* lower score (Credit, Debit, Running_Balance, GST being detected in that
\* order), and the first stream of 'Metric Values' is the Dominant Metric.
C28_DominantMetric ==
    \A j \in 1..Len(rows) :
        LET D == rows[j].DominantMetric
            code == rows[j].AccountCode
        IN /\ D \in Elems(metrics)
           /\ MetricScoreOf(code, D) > 0
           /\ \A m \in Elems(metrics) : MetricScoreOf(code, m) <= MetricScoreOf(code, D)
           /\ \A m \in Elems(metrics) :
                 DetectedAt(m) < DetectedAt(D) => MetricScoreOf(code, m) < MetricScoreOf(code, D)
           /\ metrics = <<"Credit", "Debit", "Running_Balance", "GST">>
           /\ rows[j].Streams # <<>>
           /\ rows[j].Streams[1] = D

\* a finished run with a row whose Credit and Debit streams tie on the
\* highest score, Credit being the Dominant Metric and the first stream
C28_Witness ==
    /\ pc = "done"
    /\ \E j \in 1..Len(out) :
          /\ out[j].AccountCode = "9200"
          /\ MetricScoreOf("9200", "Credit") = MetricScoreOf("9200", "Debit")
          /\ MetricScoreOf("9200", "Credit") > 0
          /\ out[j].DominantMetric = "Credit"
          /\ out[j].Streams = <<"Credit", "Debit">>

\* the highest abs(CY mean) percentile of row i over all detected metrics
\* that have one
BestPctAllMetrics(i) ==
    MaxPct({mean_pct[m][i] : m \in {x \in Elems(metrics) : ~mean_pct[x][i].nan}})

\* C27 as stated: the best materiality percentile of an account that reached
\* the gates is the maximum abs(CY mean) percentile over every metric of the
\* account with a defined percentile, whether or not the metric fired.
C27_BestMaterialityAllMetrics ==
    \A i \in 1..Len(acct) :
        acct[i].scored # <<>> => acct[i].max_mean_pct = BestPctAllMetrics(i)

-----------------------------------------------------------------------------
(* The statistical comparison of one account: StatisticalInferences          *)
(*                                                                           *)
(* A transaction table is [none, columns, rows], a row being a function from *)
(* the column names to cells.  Cells are records [k, a, b, c]:               *)
(*   k = "str"     a text; a/b/c is the date text "a/b/c", 0/0/0 a text that *)
(*                 holds neither a date nor a number                         *)
(*   k = "ts"      the Timestamp of day a, month b, year c                   *)
(*   k = "nat"     NaT                                                       *)
(*   k = "num"     the number a                                              *)
(*   k = "nan"     NaN                                                       *)
(*   k = "period"  the Period number a (month or quarter) of year c          *)
(* Means and variances are exact rationals [num, den]; Cohen's d is kept as  *)
(* its sign and its square sq_num / sq_den, so that every comparison of |d|  *)
(* with a cut-off is a comparison of integers.                               *)

\* the longest transaction table (rows per year)
MaxRows == 2

\* the number of analyses run over the same in-memory account data
MaxRuns == 2

DateText(d, m, y) == [k |-> "str", a |-> d, b |-> m, c |-> y]
JunkText == [k |-> "str", a |-> 0, b |-> 0, c |-> 0]
Timestamp(d, m, y) == [k |-> "ts", a |-> d, b |-> m, c |-> y]
NaT == [k |-> "nat", a |-> 0, b |-> 0, c |-> 0]
Amount(n) == [k |-> "num", a |-> n, b |-> 0, c |-> 0]
NaNAmount == [k |-> "nan", a |-> 0, b |-> 0, c |-> 0]
PeriodCell(n, y) == [k |-> "period", a |-> n, b |-> 0, c |-> y]

\* the columns_of_interest handed to the constructor
ColumnsOfInterest == <<"Debit", "Credit">>

TxColumns == {"Date", "Debit", "Credit"}

TxRow(date, debit, credit) ==
    [col \in TxColumns |->
        CASE col = "Date" -> date [] col = "Debit" -> debit [] OTHER -> credit]

Frame(cols, rs) == [none |-> FALSE, columns |-> cols, rows |-> rs]

\* what load_and_prepare_data returns for an empty table
NoneFrame == [none |-> TRUE, columns |-> {}, rows |-> <<>>]

\* try_parse: parser.parse(str(date_str), dayfirst=True), NaT on ValueError.
\* A Timestamp is rendered year-first ("c-b-a 00:00:00") and, read back with
\* dayfirst, has its last number taken as the month whenever that is 12 or
\* less.
try_parse(cell) ==
    CASE cell.k = "str" ->
            IF cell.a = 0 THEN NaT
            ELSE IF cell.b <= 12 THEN Timestamp(cell.a, cell.b, cell.c)
            ELSE IF cell.a <= 12 THEN Timestamp(cell.b, cell.a, cell.c)
            ELSE NaT
      [] cell.k = "ts" ->
            IF cell.a <= 12 THEN Timestamp(cell.b, cell.a, cell.c) ELSE cell
      [] OTHER -> NaT

\* pd.to_numeric(..., errors='coerce') on one cell
to_numeric(cell) == IF cell.k = "num" THEN cell ELSE NaNAmount

HasDate(r) == r["Date"].k # "nat"

\* load_and_prepare_data(df): the table the caller passed, as the call leaves
\* it, and the frame the call returns.  `df['Date'] = ...` assigns to the
\* caller's table; dropna returns a new frame, which the numeric conversion
\* then changes.
load_and_prepare_rows(df) ==
    IF df.rows = <<>> THEN [caller |-> df, df |-> NoneFrame]
    ELSE LET parsed == [j \in 1..Len(df.rows) |->
                            [df.rows[j] EXCEPT !["Date"] = try_parse(@)]]
             kept == SelectSeq(parsed, HasDate)
         IN [caller |-> Frame(df.columns, parsed),
             df |-> Frame(df.columns,
                          [j \in 1..Len(kept) |->
                              [col \in df.columns |->
                                  IF col \in {ColumnsOfInterest[n] : n \in 1..Len(ColumnsOfInterest)}
                                  THEN to_numeric(kept[j][col]) ELSE kept[j][col]]])]

\* the period names of the model: the month and the quarter of a date need
\* no weekday calendar
EnginePeriods == {"monthly", "quarterly"}

\* df['Date'].dt.to_period('M' / 'Q') of one Timestamp
PeriodKey(ts, p) ==
    IF p = "monthly" THEN PeriodCell(ts.b, ts.c)
    ELSE PeriodCell(((ts.b - 1) \div 3) + 1, ts.c)

KeyLE(p, q) == p.c < q.c \/ (p.c = q.c /\ p.a <= q.a)

RECURSIVE SortedKeys(_)
\* the group keys in ascending order
SortedKeys(S) ==
    IF S = {} THEN <<>>
    ELSE LET first == CHOOSE p \in S : \A q \in S : KeyLE(p, q)
         IN <<first>> \o SortedKeys(S \ {first})

\* the sum of column col over the rows of one period, NaN counting as 0
GroupSum(rs, key, col) ==
    SumSeq([j \in 1..Len(rs) |->
               IF rs[j]["Period"] = key /\ rs[j][col].k = "num" THEN rs[j][col].a ELSE 0])

\* aggregate(df, period): the frame with its added 'Period' column and the
\* table of period sums, empty for no data
aggregate_rows(df, p) ==
    IF (~df.none) /\ df.rows # <<>>
    THEN LET keyed == [j \in 1..Len(df.rows) |->
                          [col \in df.columns \cup {"Period"} |->
                              IF col = "Period" THEN PeriodKey(df.rows[j]["Date"], p)
                              ELSE df.rows[j][col]]]
             keys == SortedKeys({keyed[j]["Period"] : j \in 1..Len(keyed)})
         IN [df |-> Frame(df.columns \cup {"Period"}, keyed),
             table |-> [j \in 1..Len(keys) |->
                           [Period |-> keys[j],
                            sums |-> [col \in {ColumnsOfInterest[n] : n \in 1..Len(ColumnsOfInterest)} |->
                                         GroupSum(keyed, keys[j], col)]]]]
    ELSE [df |-> df, table |-> <<>>]

\* the period series of one column
Series(table, col) == [j \in 1..Len(table) |-> table[j].sums[col]]

nunique(s) == Cardinality({s[j] : j \in 1..Len(s)})

\* describe()['mean'] and describe()['std'] ** 2 of a series of two or more
MeanOf(s) == [num |-> SumSeq(s), den |-> Len(s)]

VarOf(s) ==
    [num |-> Len(s) * SumSeq([j \in 1..Len(s) |-> s[j] * s[j]]) - SumSeq(s) * SumSeq(s),
     den |-> Len(s) * (Len(s) - 1)]

RatSub(p, q) == [num |-> p.num * q.den - q.num * p.den, den |-> p.den * q.den]

DNaN == [nan |-> TRUE, sgn |-> 0, sq_num |-> 0, sq_den |-> 1]

\* abs(d) < t100 / 100
AbsLT(d, t100) == d.sq_num * 10000 < t100 * t100 * d.sq_den

\* the label cut-offs with the gap closed: 'medium' up to 0.8
cohens_effect_NoGap(mean_diff, var_ly, var_cy) ==
    LET pooled == var_ly.num * var_cy.den + var_cy.num * var_ly.den
        d == [nan |-> FALSE,
              sgn |-> IF mean_diff.num > 0 THEN 1 ELSE IF mean_diff.num < 0 THEN -1 ELSE 0,
              sq_num |-> 2 * mean_diff.num * mean_diff.num * var_ly.den * var_cy.den,
              sq_den |-> mean_diff.den * mean_diff.den * pooled]
    IN IF pooled # 0
       THEN [cohens_d |-> d,
             effect_size |-> IF AbsLT(d, 20) THEN "small"
                             ELSE IF AbsLT(d, 80) THEN "medium"
                             ELSE "large"]
       ELSE [cohens_d |-> DNaN, effect_size |-> "none"]

\* lines 153-173: pooled_std = sqrt((std_ly^2 + std_cy^2) / 2), Cohen's d and
\* its label; `pooled` is 2 * pooled_std^2 times the two denominators
cohens_effect(mean_diff, var_ly, var_cy) ==
    LET pooled == var_ly.num * var_cy.den + var_cy.num * var_ly.den
        d == [nan |-> FALSE,
              sgn |-> IF mean_diff.num > 0 THEN 1 ELSE IF mean_diff.num < 0 THEN -1 ELSE 0,
              sq_num |-> 2 * mean_diff.num * mean_diff.num * var_ly.den * var_cy.den,
              sq_den |-> mean_diff.den * mean_diff.den * pooled]
    IN IF pooled # 0
       THEN [cohens_d |-> d,
             effect_size |-> IF AbsLT(d, 20) THEN "small"
                             ELSE IF AbsLT(d, 50) THEN "medium"
                             ELSE IF ~AbsLT(d, 80) THEN "large"
                             ELSE "none"]
       ELSE [cohens_d |-> DNaN, effect_size |-> "none"]

\* the inclusion test with "or" between the two years
included_columns_EitherYear(ly, cy) ==
    IF ly = <<>> \/ cy = <<>> THEN {}
    ELSE {col \in {ColumnsOfInterest[n] : n \in 1..Len(ColumnsOfInterest)} :
            nunique(Series(ly, col)) > 1 \/ nunique(Series(cy, col)) > 1}

\* lines 59-70: the columns that enter comparison_inferences
included_columns(ly, cy) ==
    IF ly = <<>> \/ cy = <<>> THEN {}
    ELSE {col \in {ColumnsOfInterest[n] : n \in 1..Len(ColumnsOfInterest)} :
            nunique(Series(ly, col)) > 1 /\ nunique(Series(cy, col)) > 1}

\* the comparison record of the two period tables (mean difference, Cohen's
\* d and effect-size label of each included column)
compare_series(ly, cy) ==
    [col \in included_columns(ly, cy) |->
        LET md == RatSub(MeanOf(Series(cy, col)), MeanOf(Series(ly, col)))
            e == cohens_effect(md, VarOf(Series(ly, col)), VarOf(Series(cy, col)))
        IN [mean_diff |-> md, cohens_d |-> e.cohens_d, effect_size |-> e.effect_size]]

\* _extract_metrics, lines 112-114: the columns whose metrics enter the
\* result row; a column outside the comparison record is passed over
extracted_columns(cmp) ==
    FilterSeq(ColumnsOfInterest, DOMAIN cmp)

\* the transaction rows a caller holds for one year: dates as day-first text
CallerPool(y) ==
    { TxRow(DateText(5, 3, y), Amount(2), Amount(0)),
      TxRow(DateText(20, 4, y), Amount(5), Amount(3)),
      TxRow(JunkText, Amount(5), Amount(0)),
      TxRow(DateText(5, 4, y), JunkText, Amount(3)) }

\* the tables of 0..MaxRows rows; pd.DataFrame() for no transactions
TablesOver(pool) ==
    {Frame({}, <<>>)} \cup
    UNION {{Frame(TxColumns, rs) : rs \in [1..n -> pool]} : n \in 1..MaxRows}

InitFrames ==
    /\ tx_previous \in TablesOver(CallerPool(2022))
    /\ tx_current \in TablesOver(CallerPool(2023))
    /\ tx_start = <<tx_previous, tx_current>>
    /\ self_df_last_year = <<>>
    /\ self_df_current_year = <<>>
    /\ monthly_last_year = <<>>
    /\ monthly_current_year = <<>>
    /\ comparison = <<>>
    /\ extracted = <<>>
    /\ agg_period \in EnginePeriods
    /\ epc = "new"
    /\ runs = 0
    /\ ReportIdle
    /\ AnalyzerIdle
    /\ InterpretIdle
    /\ DashboardIdle

\* StatisticalInferences(df_previous, df_current, columns): lines 8-11
Construct ==
    /\ epc = "new"
    /\ tx_previous' = load_and_prepare_rows(tx_previous).caller
    /\ self_df_last_year' = load_and_prepare_rows(tx_previous).df
    /\ tx_current' = load_and_prepare_rows(tx_current).caller
    /\ self_df_current_year' = load_and_prepare_rows(tx_current).df
    /\ epc' = "constructed"
    /\ UNCHANGED <<tx_start, monthly_last_year, monthly_current_year, comparison,
                   extracted, agg_period, runs>>
    /\ UNCHANGED <<reportVars, configVars, analyzerVars, interpVars, dashVars>>

\* compare_statistical_inferences(period): lines 56-178
Compare ==
    /\ epc = "constructed"
    /\ self_df_last_year' = aggregate_rows(self_df_last_year, agg_period).df
    /\ self_df_current_year' = aggregate_rows(self_df_current_year, agg_period).df
    /\ monthly_last_year' = aggregate_rows(self_df_last_year, agg_period).table
    /\ monthly_current_year' = aggregate_rows(self_df_current_year, agg_period).table
    /\ comparison' = compare_series(aggregate_rows(self_df_last_year, agg_period).table,
                                    aggregate_rows(self_df_current_year, agg_period).table)
    /\ epc' = "compared"
    /\ runs' = runs + 1
    /\ UNCHANGED <<tx_previous, tx_current, tx_start, extracted, agg_period>>
    /\ UNCHANGED <<reportVars, configVars, analyzerVars, interpVars, dashVars>>

\* analyzer.py lines 67-76: the metrics of a non-empty comparison are
\* extracted into the result row
Extract ==
    /\ epc = "compared"
    /\ DOMAIN comparison # {}
    /\ extracted' = extracted_columns(comparison)
    /\ epc' = "extracted"
    /\ UNCHANGED <<tx_previous, tx_current, tx_start, self_df_last_year,
                   self_df_current_year, monthly_last_year, monthly_current_year,
                   comparison, agg_period, runs>>
    /\ UNCHANGED <<reportVars, configVars, analyzerVars, interpVars, dashVars>>

\* the next analysis over the same account data, at another period
\* (EXAMPLE_USAGE.py, scenario 3)
NextPeriod ==
    /\ \/ epc = "extracted"
       \/ epc = "compared" /\ DOMAIN comparison = {}
    /\ runs < MaxRuns
    /\ agg_period' \in EnginePeriods \ {agg_period}
    /\ epc' = "new"
    /\ UNCHANGED <<tx_previous, tx_current, tx_start, self_df_last_year,
                   self_df_current_year, monthly_last_year, monthly_current_year,
                   comparison, extracted, runs>>
    /\ UNCHANGED <<reportVars, configVars, analyzerVars, interpVars, dashVars>>

NextFrames == Construct \/ Compare \/ Extract \/ NextPeriod

SpecFrames == InitFrames /\ [][NextFrames]_vars

\* C26 as stated: constructing the engine on the two tables and running the
\* comparison leaves the caller's tables as they were, columns and cells, so
\* that a further analysis starts from the same input.
C26_CallerTablesUnchanged ==
    epc \in {"constructed", "compared", "extracted"} =>
        <<tx_previous, tx_current>> = tx_start

-----------------------------------------------------------------------------
(* The comparison on prepared frames *)

\* rows of a prepared frame: parsed dates in three months of two quarters,
\* numeric amounts
PreparedPool(y) ==
    { TxRow(Timestamp(5, 2, y), Amount(0), Amount(0)),
      TxRow(Timestamp(25, 3, y), Amount(2), Amount(3)),
      TxRow(Timestamp(5, 2, y), Amount(5), Amount(3)),
      TxRow(Timestamp(20, 4, y), Amount(0), Amount(3)),
      TxRow(Timestamp(20, 4, y), Amount(2), Amount(0)) }

\* what load_and_prepare_data can return: None, a frame that lost all its
\* rows, a frame of 1..MaxRows rows
PreparedFrames(y) ==
    {NoneFrame, Frame(TxColumns, <<>>)} \cup
    UNION {{Frame(TxColumns, rs) : rs \in [1..n -> PreparedPool(y)]} : n \in 1..MaxRows}

InitComparator ==
    /\ tx_previous = <<>>
    /\ tx_current = <<>>
    /\ tx_start = <<>>
    /\ self_df_last_year \in PreparedFrames(2022)
    /\ self_df_current_year \in PreparedFrames(2023)
    /\ monthly_last_year = <<>>
    /\ monthly_current_year = <<>>
    /\ comparison = <<>>
    /\ extracted = <<>>
    /\ agg_period \in EnginePeriods
    /\ epc = "constructed"
    /\ runs = 0
    /\ ReportIdle
    /\ AnalyzerIdle
    /\ InterpretIdle
    /\ DashboardIdle

NextComparator == Compare \/ Extract

SpecComparator == InitComparator /\ [][NextComparator]_vars

\* the period series of a column has two or more distinct values
TwoDistinct(table, col) ==
    \E j, n \in 1..Len(table) : table[j].sums[col] # table[n].sums[col]

\* C22: after the comparison a metric is in the comparison record iff its
\* prior-year and its current-year period series both have two or more
\* distinct values; the extraction of the result row passes over the absent
\* metrics and takes exactly the metrics of the record.
C22_IncludedIffTwoDistinct ==
    /\ epc \in {"compared", "extracted"} =>
          \A n \in 1..Len(ColumnsOfInterest) :
              (ColumnsOfInterest[n] \in DOMAIN comparison)
              <=> (TwoDistinct(monthly_last_year, ColumnsOfInterest[n])
                   /\ TwoDistinct(monthly_current_year, ColumnsOfInterest[n]))
    /\ epc = "extracted" =>
          {extracted[n] : n \in 1..Len(extracted)} = DOMAIN comparison

\* a finished extraction whose record has Debit and lacks Credit, the Credit
\* series being flat in the prior year
C22_Witness ==
    /\ epc = "extracted"
    /\ DOMAIN comparison = {"Debit"}
    /\ extracted = <<"Debit">>
    /\ Len(monthly_last_year) >= 2
    /\ ~TwoDistinct(monthly_last_year, "Credit")
    /\ TwoDistinct(monthly_current_year, "Credit")

\* C23: every Cohen's d of the comparison record is a number and carries the
\* label 'small' below 0.2, 'medium' from 0.2 to below 0.5, 'none' from 0.5
\* to below 0.8 and 'large' from 0.8 on; with a pooled standard deviation of
\* zero the measure is not-a-number and the label 'none'.
C23_EffectLabels ==
    /\ \A col \in DOMAIN comparison :
          LET d == comparison[col].cohens_d
              below(t) == d.sq_num * 10000 < t * t * d.sq_den
          IN /\ ~d.nan
             /\ d.sq_den > 0
             /\ comparison[col].effect_size =
                   (IF below(20) THEN "small"
                    ELSE IF below(50) THEN "medium"
                    ELSE IF below(80) THEN "none"
                    ELSE "large")
    /\ \A md \in -2..2 :
          cohens_effect([num |-> md, den |-> 2], [num |-> 0, den |-> 2], [num |-> 0, den |-> 2])
          = [cohens_d |-> DNaN, effect_size |-> "none"]

\* a comparison whose Debit effect falls into the gap: label 'none' with |d|
\* from 0.5 to below 0.8
C23_Witness ==
    /\ epc = "compared"
    /\ "Debit" \in DOMAIN comparison
    /\ comparison["Debit"].effect_size = "none"
    /\ ~comparison["Debit"].cohens_d.nan
    /\ ~AbsLT(comparison["Debit"].cohens_d, 50)
    /\ AbsLT(comparison["Debit"].cohens_d, 80)

-----------------------------------------------------------------------------
(* The interpreter's account buckets: bucketize                              *)
(*                                                                           *)
(* A text is a sequence of one-character strings; an account name is         *)
(* [none, chars], none standing for a missing name (None).                   *)

\* the most words in an account name
MaxWords == 2

UpperCase == <<"A", "B", "C", "D", "E", "F", "G", "H", "I", "J", "K", "L", "M", "N", "O", "P", "Q", "R", "S", "T", "U", "V", "W", "X", "Y", "Z">>

LowerCase == <<"a", "b", "c", "d", "e", "f", "g", "h", "i", "j", "k", "l", "m", "n", "o", "p", "q", "r", "s", "t", "u", "v", "w", "x", "y", "z">>

\* str.lower() on one character and on a text
lower_char(ch) ==
    IF \E j \in 1..Len(UpperCase) : UpperCase[j] = ch
    THEN LowerCase[CHOOSE j \in 1..Len(UpperCase) : UpperCase[j] = ch]
    ELSE ch

lower(t) == [j \in 1..Len(t) |-> lower_char(t[j])]

\* k in n, for texts
Contains(n, k) ==
    \E j \in 0..(Len(n) - Len(k)) : SubSeq(n, j + 1, j + Len(k)) = k

\* any(k in n for k in ks)
AnyIn(ks, n) == \E j \in 1..Len(ks) : Contains(n, ks[j])

\* the keywords of bucket 'revenue'
revenue_keywords ==
    << <<"s", "a", "l", "e", "s">>,
       <<"r", "e", "v", "e", "n", "u", "e">>,
       <<"i", "n", "c", "o", "m", "e">> >>

\* the keywords of bucket 'cash'
cash_keywords ==
    << <<"b", "a", "n", "k">>,
       <<"m", "e", "r", "c", "h", "a", "n", "t">>,
       <<"e", "f", "t", "p", "o", "s">>,
       <<"s", "t", "r", "i", "p", "e">>,
       <<"f", "e", "e", "s">>,
       <<"i", "n", "t", "e", "r", "e", "s", "t">> >>

\* the keywords of bucket 'timing'
timing_keywords ==
    << <<"i", "n", "s", "u", "r", "a", "n", "c", "e">>,
       <<"s", "u", "b", "s", "c", "r", "i", "p", "t", "i", "o", "n">>,
       <<"s", "u", "b", "s", "c", "r", "i", "p", "t", "i", "o", "n", "s">>,
       <<"p", "r", "e", "p", "a", "i", "d">>,
       <<"l", "i", "c", "e", "n", "c", "e">>,
       <<"l", "i", "c", "e", "n", "s", "e">>,
       <<"a", "n", "n", "u", "a", "l">> >>

\* the keywords of bucket 'clearing'
clearing_keywords ==
    << <<"p", "a", "y", "a", "b", "l", "e">>,
       <<"r", "e", "c", "e", "i", "v", "a", "b", "l", "e">>,
       <<"d", "e", "p", "o", "s", "i", "t">>,
       <<"c", "l", "e", "a", "r", "i", "n", "g">>,
       <<"s", "u", "s", "p", "e", "n", "s", "e">>,
       <<"c", "o", "n", "t", "r", "o", "l">>,
       <<"i", "n", "t", "e", "r", "c", "o", "m", "p", "a", "n", "y">>,
       <<"l", "o", "a", "n">>,
       <<"h", "i", "r", "e", " ", "p", "u", "r", "c", "h", "a", "s", "e">>,
       <<"h", "p">> >>

\* the keywords of bucket 'tax'
tax_keywords ==
    << <<"g", "s", "t">>,
       <<"v", "a", "t">>,
       <<"t", "a", "x">>,
       <<"r", "w", "t">> >>

\* the keywords of bucket 'rounding'
rounding_keywords ==
    << <<"r", "o", "u", "n", "d", "i", "n", "g">>,
       <<"r", "o", "u", "n", "d", " ", "o", "f", "f">>,
       <<"r", "o", "u", "n", "d", "-", "o", "f", "f">> >>

\* the chain with the cash keywords tested before the revenue keywords
bucketize_CashFirst(name) ==
    LET n == lower(IF name.none \/ name.chars = <<>> THEN <<>> ELSE name.chars)
    IN IF AnyIn(cash_keywords, n) THEN "cash"
       ELSE IF AnyIn(revenue_keywords, n) THEN "revenue"
       ELSE IF AnyIn(timing_keywords, n) THEN "timing"
       ELSE IF AnyIn(clearing_keywords, n) THEN "clearing"
       ELSE IF AnyIn(tax_keywords, n) THEN "tax"
       ELSE IF AnyIn(rounding_keywords, n) THEN "rounding"
       ELSE "general"

\* bucketize(account_name): n = (account_name or "").lower(), then the chain
\* of keyword tests
bucketize(name) ==
    LET n == lower(IF name.none \/ name.chars = <<>> THEN <<>> ELSE name.chars)
    IN IF AnyIn(revenue_keywords, n) THEN "revenue"
       ELSE IF AnyIn(cash_keywords, n) THEN "cash"
       ELSE IF AnyIn(timing_keywords, n) THEN "timing"
       ELSE IF AnyIn(clearing_keywords, n) THEN "clearing"
       ELSE IF AnyIn(tax_keywords, n) THEN "tax"
       ELSE IF AnyIn(rounding_keywords, n) THEN "rounding"
       ELSE "general"

\* the words account names are made of
Vocabulary ==
    { <<"I", "n", "t", "e", "r", "e", "s", "t">>,
      <<"I", "n", "c", "o", "m", "e">>,
      <<"G", "S", "T">>,
      <<"P", "a", "y", "a", "b", "l", "e">>,
      <<"B", "A", "N", "K">>,
      <<"R", "o", "u", "n", "d", "i", "n", "g">>,
      <<"S", "t", "o", "c", "k">>,
      <<"H", "i", "r", "e">>,
      <<"P", "u", "r", "c", "h", "a", "s", "e">>,
      <<"I", "n", "s", "u", "r", "a", "n", "c", "e">> }

RECURSIVE JoinWords(_)
\* the words separated by single spaces
JoinWords(ws) ==
    IF ws = <<>> THEN <<>>
    ELSE IF Len(ws) = 1 THEN ws[1]
    ELSE ws[1] \o <<" ">> \o JoinWords(Tail(ws))

NoName == [none |-> TRUE, chars |-> <<>>]

\* a missing name, the empty name, and the names of 1..MaxWords words
AccountNames ==
    {NoName} \cup
    {[none |-> FALSE, chars |-> JoinWords(ws)] :
        ws \in UNION {[1..n -> Vocabulary] : n \in 0..MaxWords}}

InitInterpret ==
    /\ name_arg \in AccountNames
    /\ bucket = ""
    /\ ipc = "start"
    /\ ReportIdle
    /\ AnalyzerIdle
    /\ EngineIdle
    /\ DashboardIdle

\* one call of bucketize
Bucketize ==
    /\ ipc = "start"
    /\ bucket' = bucketize(name_arg)
    /\ ipc' = "done"
    /\ UNCHANGED name_arg
    /\ UNCHANGED <<reportVars, configVars, analyzerVars, engineVars, dashVars>>

NextInterpret == Bucketize

SpecInterpret == InitInterpret /\ [][NextInterpret]_vars

\* the buckets in matching order, each with its keywords
BucketOrder ==
    << [bucket |-> "revenue",  keywords |-> revenue_keywords],
       [bucket |-> "cash",     keywords |-> cash_keywords],
       [bucket |-> "timing",   keywords |-> timing_keywords],
       [bucket |-> "clearing", keywords |-> clearing_keywords],
       [bucket |-> "tax",      keywords |-> tax_keywords],
       [bucket |-> "rounding", keywords |-> rounding_keywords] >>

\* bucket number j has a keyword that occurs in the name, letter case aside
Matches(j, name) ==
    (~name.none) /\ AnyIn(BucketOrder[j].keywords, lower(name.chars))

\* C25: the bucket returned for a name is the earliest bucket, in the order
\* revenue, cash, timing, clearing, tax, rounding, one of whose keywords the
\* name contains whatever its letter case; it is 'general' for a name with
\* no keyword, for the empty name and for a missing name.
C25_FirstMatchingBucket ==
    ipc = "done" =>
        /\ \A j \in 1..Len(BucketOrder) :
              (Matches(j, name_arg) /\ \A n \in 1..(j - 1) : ~Matches(n, name_arg))
                  => bucket = BucketOrder[j].bucket
        /\ (\A j \in 1..Len(BucketOrder) : ~Matches(j, name_arg)) => bucket = "general"
        /\ (name_arg.none \/ name_arg.chars = <<>>) => bucket = "general"

\* the name "Interest Income", which holds a cash keyword before a revenue
\* keyword, was put into 'revenue'
C25_Witness ==
    /\ ipc = "done"
    /\ name_arg = [none |-> FALSE, chars |-> <<"I", "n", "t", "e", "r", "e", "s", "t", " ", "I", "n", "c", "o", "m", "e">>]
    /\ Matches(1, name_arg)
    /\ Matches(2, name_arg)
    /\ bucket = "revenue"

-----------------------------------------------------------------------------
(* The dashboard session: streamlit_app.py                                   *)
(*                                                                           *)
(* Every user event (a file put into or taken out of an uploader, a changed  *)
(* setting, a click on the run button) makes Streamlit run the script from   *)
(* top to bottom against st.session_state; an action is the event together   *)
(* with that script run.  None is the string "none".  st.stop() and          *)
(* st.rerun() end the script run by a control-flow exception that            *)
(* `except Exception` does not catch.                                        *)

\* the content signatures of the files a user may upload
FileSigs == {"gl_a", "gl_b"}

\* the signatures of the settings a user may choose
SettingSigs == {"cfg_a", "cfg_b"}

\* init_state(): lines 41-58
init_state ==
    [cur_file_sig |-> "none", prev_file_sig |-> "none",
     analysis_df |-> "none", analysis_ok |-> FALSE, analysis_error |-> "none",
     report_df |-> "none", report_error |-> "none", report_ready |-> FALSE,
     cfg_sig_last_run |-> "none", cfg_sig_current |-> "none",
     results_stale |-> TRUE]

\* the reset that leaves results_stale as it was
clear_results_KeepsFresh(ss, reason) ==
    [ss EXCEPT !.analysis_df = "none", !.analysis_ok = FALSE,
               !.analysis_error = reason,
               !.report_df = "none", !.report_error = "none",
               !.report_ready = FALSE,
               !.cfg_sig_last_run = "none"]

\* clear_results(reason): lines 87-97
clear_results(ss, reason) ==
    [ss EXCEPT !.analysis_df = "none", !.analysis_ok = FALSE,
               !.analysis_error = reason,
               !.report_df = "none", !.report_error = "none",
               !.report_ready = FALSE,
               !.cfg_sig_last_run = "none", !.results_stale = TRUE]

\* lines 171-174: the settings signature and the stale mark
DetectConfigChange(ss, sig) ==
    [ss EXCEPT !.cfg_sig_current = sig,
               !.results_stale = IF ss.cfg_sig_last_run # "none"
                                    /\ ss.cfg_sig_last_run # sig
                                 THEN TRUE ELSE @]

\* lines 203-217: the two uploaders, current year first
DetectFileChange(ss, upc, upp) ==
    LET afterCur ==
            IF upc = "none" THEN ss
            ELSE [(IF ss.cur_file_sig # "none" /\ ss.cur_file_sig # upc
                   THEN clear_results(ss, "Current year file changed.")
                   ELSE ss) EXCEPT !.cur_file_sig = upc]
    IN IF upp = "none" THEN afterCur
       ELSE [(IF afterCur.prev_file_sig # "none" /\ afterCur.prev_file_sig # upp
              THEN clear_results(afterCur, "Previous year file changed.")
              ELSE afterCur) EXCEPT !.prev_file_sig = upp]

\* the script from its top to the run button: the session state it leaves
UpToButton(ss, upc, upp, sig) == DetectFileChange(DetectConfigChange(ss, sig), upc, upp)

\* line 228
RunDisabled(ss, upc, upp) ==
    ~(upc # "none" /\ upp # "none") \/ ~ss.results_stale

\* lines 243-290, by what the analysis and the report builder do:
\*   "analysis_raises"  analyze_from_gl_file raises
\*   "invalid"          validate_input_df rejects the analysis output
\*   "report_raises"    build_deviation_report raises
\*   "ok"               both steps succeed
RunHandler(ss, sig, outcome) ==
    CASE outcome = "analysis_raises" ->
            [ss EXCEPT !.report_df = "none", !.report_ready = FALSE,
                       !.report_error = "GL analysis failed"]
      [] outcome = "invalid" ->
            [ss EXCEPT !.analysis_ok = FALSE, !.analysis_df = "none",
                       !.analysis_error = "GL analysis output failed validation"]
      [] outcome = "report_raises" ->
            [ss EXCEPT !.analysis_ok = TRUE, !.analysis_df = "results_df",
                       !.analysis_error = "none",
                       !.report_df = "none", !.report_ready = FALSE,
                       !.report_error = "report failed"]
      [] OTHER ->
            [ss EXCEPT !.analysis_ok = TRUE, !.analysis_df = "results_df",
                       !.analysis_error = "none",
                       !.report_df = "out", !.report_error = "none",
                       !.report_ready = TRUE,
                       !.cfg_sig_last_run = sig, !.results_stale = FALSE]

\* the session after the first script run, with empty uploaders
InitDashboard ==
    /\ cfg_sig \in SettingSigs
    /\ up_current = "none"
    /\ up_previous = "none"
    /\ session_state = UpToButton(init_state, "none", "none", cfg_sig)
    /\ run_disabled = RunDisabled(session_state, "none", "none")
    /\ run_log = <<>>
    /\ ReportIdle
    /\ AnalyzerIdle
    /\ EngineIdle
    /\ InterpretIdle

\* a script run without a click on the button
Rerun(upc, upp, sig) ==
    /\ session_state' = UpToButton(session_state, upc, upp, sig)
    /\ run_disabled' = RunDisabled(UpToButton(session_state, upc, upp, sig), upc, upp)
    /\ run_log' = run_log

\* a file is put into the current-year uploader, or replaces the one there
UploadCurrent ==
    /\ \E f \in FileSigs \ {up_current} :
          /\ up_current' = f
          /\ Rerun(f, up_previous, cfg_sig)
    /\ UNCHANGED <<up_previous, cfg_sig>>
    /\ UNCHANGED <<reportVars, configVars, analyzerVars, engineVars, interpVars>>

\* a file is put into the prior-year uploader, or replaces the one there
UploadPrevious ==
    /\ \E f \in FileSigs \ {up_previous} :
          /\ up_previous' = f
          /\ Rerun(up_current, f, cfg_sig)
    /\ UNCHANGED <<up_current, cfg_sig>>
    /\ UNCHANGED <<reportVars, configVars, analyzerVars, engineVars, interpVars>>

\* the file is taken out of the current-year uploader
RemoveCurrent ==
    /\ up_current # "none"
    /\ up_current' = "none"
    /\ Rerun("none", up_previous, cfg_sig)
    /\ UNCHANGED <<up_previous, cfg_sig>>
    /\ UNCHANGED <<reportVars, configVars, analyzerVars, engineVars, interpVars>>

\* the file is taken out of the prior-year uploader
RemovePrevious ==
    /\ up_previous # "none"
    /\ up_previous' = "none"
    /\ Rerun(up_current, "none", cfg_sig)
    /\ UNCHANGED <<up_current, cfg_sig>>
    /\ UNCHANGED <<reportVars, configVars, analyzerVars, engineVars, interpVars>>

\* a setting of the sidebar is changed
ChangeSettings ==
    /\ \E s \in SettingSigs \ {cfg_sig} :
          /\ cfg_sig' = s
          /\ Rerun(up_current, up_previous, s)
    /\ UNCHANGED <<up_current, up_previous>>
    /\ UNCHANGED <<reportVars, configVars, analyzerVars, engineVars, interpVars>>

\* a click on the run button, which can be clicked when it was rendered
\* enabled: the script runs to the button, logs what it holds there and runs
\* the handler; the button stays as rendered
ClickRun(outcome) ==
    /\ ~run_disabled
    /\ run_log' = [cur_ready |-> up_current # "none",
                   prev_ready |-> up_previous # "none",
                   results_stale |->
                       UpToButton(session_state, up_current, up_previous, cfg_sig).results_stale]
    /\ session_state' =
           RunHandler(UpToButton(session_state, up_current, up_previous, cfg_sig),
                      cfg_sig, outcome)
    /\ UNCHANGED <<up_current, up_previous, cfg_sig>>
    /\ UNCHANGED <<reportVars, configVars, analyzerVars, engineVars, interpVars>>

RunAnalysisFails == ClickRun("analysis_raises") /\ run_disabled' = run_disabled

RunValidationFails == ClickRun("invalid") /\ run_disabled' = run_disabled

RunReportFails == ClickRun("report_raises") /\ run_disabled' = run_disabled

\* the successful run ends in st.rerun(): the script runs once more and
\* renders the button again
RunSucceeds ==
    /\ ClickRun("ok")
    /\ run_disabled' = RunDisabled(UpToButton(session_state', up_current, up_previous, cfg_sig),
                                   up_current, up_previous)

NextDashboard ==
    \/ UploadCurrent \/ UploadPrevious \/ RemoveCurrent \/ RemovePrevious
    \/ ChangeSettings
    \/ RunAnalysisFails \/ RunValidationFails \/ RunReportFails \/ RunSucceeds

SpecDashboard == InitDashboard /\ [][NextDashboard]_vars

\* C29: whenever results_stale is False the session holds an analysis table
\* and a report and report_ready is True; every run that started found both
\* uploaders filled and results_stale True.
C29_FreshResultsAreComplete ==
    /\ session_state.results_stale = FALSE =>
          /\ session_state.analysis_df # "none"
          /\ session_state.report_df # "none"
          /\ session_state.report_ready
    /\ run_log # <<>> =>
          /\ run_log.cur_ready
          /\ run_log.prev_ready
          /\ run_log.results_stale

\* after a successful run the current-year file was taken out: the results
\* are fresh and complete, the button is disabled
C29_Witness ==
    /\ session_state.results_stale = FALSE
    /\ session_state.report_ready
    /\ session_state.analysis_df = "results_df"
    /\ session_state.report_df = "out"
    /\ run_log # <<>>
    /\ up_current = "none"
    /\ session_state.cur_file_sig # "none"
    /\ run_disabled

====
